---- MODULE Spec2Model ----
(***************************************************************************)
(* Model of the kimi-go agent core: the Soul run loop and turn loop        *)
(* (internal/soul/soul.go), the retrying LLM client                        *)
(* (internal/llm/retry_client.go), the retry executor                      *)
(* (internal/llm/retry.go), the error taxonomy (internal/llm/errors.go),   *)
(* the tool registry (internal/tools/tool.go) and the approval manager     *)
(* (internal/approval/approval.go).                                        *)
(***************************************************************************)
EXTENDS Integers, Sequences, FiniteSets, TLC

(***************************************************************************)
(* Bounds of the model.                                                    *)
(***************************************************************************)
\* number of SendMessage calls explored
MaxSends == 2
\* Runtime.MaxSteps of the modelled Soul
MaxSteps == 2
\* RetryConfig.MaxRetries of the retrying client wired into the Soul
ClientMaxRetries == 1
\* largest RetryConfig.MaxRetries explored for ExecuteWithRetry
MaxRetriesBound == 2
\* number of Cancel calls made by other goroutines
MaxCancels == 1
\* number of requests answered by the base LLM client
MaxRequests == 3

(***************************************************************************)
(* Program constants.                                                      *)
(***************************************************************************)
\* capacity of msgCh (NewSoul)
InboxCap == 100
\* capacity of DoneCh (NewSoul)
DoneCap == 1

Last(s) == s[Len(s)]

(***************************************************************************)
(* Error taxonomy (errors.go).  An error value is a record                 *)
(* [kind, status]; status is meaningful for kind = "api" only.             *)
(***************************************************************************)
ApiErr(s) == [kind |-> "api", status |-> s]
NetworkErr == [kind |-> "network", status |-> 0]
TimeoutErr == [kind |-> "timeout", status |-> 0]
EmptyRespErr == [kind |-> "empty", status |-> 0]
\* an error that implements neither RetryableError nor net.Error
PlainErr == [kind |-> "plain", status |-> 0]
NoErr == [kind |-> "nil", status |-> 0]

APIError_IsRetryable_5xx(e) == e.status = 429 \/ e.status \in 500..599

APIError_IsRetryable_401(e) == e.status \in {401, 429, 500, 502, 503, 504}

\* APIError.IsRetryable
APIError_IsRetryable(e) == e.status \in {429, 500, 502, 503, 504}

IsRetryableError_all(e) == e.kind # "nil"

\* IsRetryableError
IsRetryableError(e) ==
    CASE e.kind = "nil" -> FALSE
      [] e.kind = "api" -> APIError_IsRetryable(e)
      [] e.kind \in {"network", "timeout", "empty"} -> TRUE
      [] OTHER -> FALSE

(***************************************************************************)
(* Tool registry (tool.go) as wired by main: shell and file.               *)
(***************************************************************************)
RegisteredTools == {"shell", "file"}

\* ToolSet.Get: TRUE iff the name is registered
ToolSet_Get(name) == name \in RegisteredTools

(***************************************************************************)
(* Approval manager (approval.go).                                         *)
(***************************************************************************)
\* NewManager: the level chosen from the yolo flag
NewManager(yolo) == [level |-> IF yolo THEN "yolo" ELSE "per-request",
                     sessionApproved |-> {},
                     dangerousTools |-> {"shell"}]

\* Manager.IsApproved
IsApproved(m, toolName) ==
    IF m.level = "yolo" THEN TRUE
    ELSE IF m.level = "session" THEN toolName \in m.sessionApproved
    ELSE FALSE


(***************************************************************************)
(* State.                                                                  *)
(*                                                                         *)
(* Soul (soul.go):                                                         *)
(*   msgCh       the inbox, a FIFO of wire message types                   *)
(*   DoneCh      number of items buffered in DoneCh                        *)
(*   running     Soul.running                                              *)
(*   cancelCh    identity of the channel currently held in Soul.cancelCh   *)
(*   closedChs   identities of the cancel channels that have been closed   *)
(*   waitCh      the cancel channel the select of Run evaluated            *)
(*   llmHistory  Soul.llmHistory                                           *)
(*   runPc       position of the goroutine executing Run                   *)
(*   step        loop variable of the agent loop of processWithLLM         *)
(*   pending     tool calls of the current response not yet handled        *)
(*   attempt     loop variable of RetryableClient.ChatWithTools            *)
(*   hasClient   runtime.LLMClient # nil                                   *)
(*   ctxDone     the context passed to Run has been cancelled              *)
(* Observation of the environment:                                         *)
(*   trace       handler calls, LLM calls and tool invocations made while  *)
(*               handling the message dequeued last                        *)
(*   sent        number of successful SendMessage calls                    *)
(*   reqs        number of requests the base LLM client has answered       *)
(*                                                                         *)
(* Retry executor (retry.go), one run of ExecuteWithRetry:                 *)
(*   rx          record of the run, see RxInit                             *)
(*                                                                         *)
(* Callers of Run, Cancel and SendMessage:                                 *)
(*   life        what the callers observed, see LifeInit                   *)
(*                                                                         *)
(* Approval manager (approval.go):                                         *)
(*   mgr         the Manager, see MgrInit                                  *)
(*                                                                         *)
(* Pure functions (IsRetryable, ExponentialBackoff):                       *)
(*   calc        the arguments and the result of one call                  *)
(***************************************************************************)
VARIABLES msgCh, DoneCh, running, cancelCh, closedChs, waitCh, llmHistory,
          runPc, step, pending, attempt, hasClient, ctxDone,
          trace, sent, reqs, rx, life, mgr, calc

vars == <<msgCh, DoneCh, running, cancelCh, closedChs, waitCh, llmHistory,
          runPc, step, pending, attempt, hasClient, ctxDone,
          trace, sent, reqs, rx, life, mgr, calc>>

\* the state of the components a specification of the Soul leaves alone
auxVars == <<life, mgr, calc>>

soulVars == <<msgCh, DoneCh, running, cancelCh, closedChs, waitCh, llmHistory,
              runPc, step, pending, attempt, hasClient, ctxDone,
              trace, sent, reqs>>

(***************************************************************************)
(* Values exchanged with the environment.                                  *)
(***************************************************************************)
\* wire message types a sender may enqueue (wire.MessageType*)
MsgTypes == {"user_input", "cancel", "status"}

\* a tool call requested by the LLM: llm.ToolCall{ID, Function.Name}
TC(id, name) == [id |-> id, name |-> name]

\* the tool_calls lists the modelled LLM may answer with
ToolBatches == { <<TC("c1", "shell")>>,
                 <<TC("c1", "nonexistent"), TC("c2", "file")>> }

\* errors the base client may return from one request
LLMErrors == {ApiErr(503), ApiErr(401)}

\* outcome of one request of the base client: a response with one choice
\* (text or tool calls), a response with no choices, or an error
Outcomes ==
    {[kind |-> "text", calls |-> <<>>, err |-> NoErr],
     [kind |-> "nochoice", calls |-> <<>>, err |-> NoErr]}
    \cup {[kind |-> "tools", calls |-> b, err |-> NoErr] : b \in ToolBatches}
    \cup {[kind |-> "err", calls |-> <<>>, err |-> e] : e \in LLMErrors}

\* llm.Message
LLMMsg(role, content, calls, callId) ==
    [role |-> role, content |-> content, tool_calls |-> calls,
     tool_call_id |-> callId]

\* an observed event: a handler call (OnToolCall, OnMessage, OnToolResult,
\* OnError), a ChatWithTools call of the loop (LLMCall), a request of the
\* base client (Attempt), a Tool.Execute call (ToolExec), a send attempt on
\* DoneCh (Done).  id is the call id or the cause of an error; name is the
\* tool name, the wire message type, the error, or the Error field of the
\* ToolResult passed to OnToolResult; ok is success.
Ev(ev, id, name, ok) == [ev |-> ev, id |-> id, name |-> name, ok |-> ok]

(***************************************************************************)
(* Soul: tool execution (executeToolCall) and the per-call body of the     *)
(* agent loop.                                                             *)
(***************************************************************************)
\* tools.ToolResult
ToolResult(callId, success, result, error) ==
    [call_id |-> callId, success |-> success, result |-> result,
     error |-> error]

ExecuteToolCall_abort(call, execOk) ==
    IF ~ToolSet_Get(call.name)
    THEN ToolResult(call.id, FALSE, "", "")
    ELSE IF ~execOk
         THEN ToolResult(call.id, FALSE, "", "")
         ELSE ToolResult(call.id, TRUE, "out", "")

\* Soul.executeToolCall; execOk: whether tool.Execute returned without error
ExecuteToolCall(call, execOk) ==
    IF ~ToolSet_Get(call.name)
    THEN ToolResult(call.id, FALSE, "", "tool not found")
    ELSE IF ~execOk
         THEN ToolResult(call.id, FALSE, "", "exec failed")
         ELSE ToolResult(call.id, TRUE, "out", "")

\* resultText of processWithLLM
ResultText(result) ==
    IF result.success THEN result.result ELSE "Error: " \o result.error

ToolResultMsg_wrongId(tc, result) ==
    LLMMsg("tool", ResultText(result), <<>>, "c0")

\* toolResultMsg of processWithLLM
ToolResultMsg(tc, result) ==
    LLMMsg("tool", ResultText(result), <<>>, tc.id)

\* the handler calls made for one tool call before executeToolCall is
\* called, in the order processWithLLM makes them
ToolCallAnnounced(tc) ==
    <<Ev("OnToolCall", tc.id, tc.name, TRUE),
      Ev("OnMessage", "", "tool_call", TRUE)>>

ToolCallReported_messageFirst(tc, result) ==
    (IF ToolSet_Get(tc.name)
     THEN <<Ev("ToolExec", tc.id, tc.name, result.success)>> ELSE <<>>)
    \o <<Ev("OnMessage", "", "tool_result", TRUE),
         Ev("OnToolResult", result.call_id, result.error, result.success)>>

\* the tool invocation made by executeToolCall (none for a tool that is not
\* registered; ok: Execute returned no error) and the handler calls made
\* once it has returned, in the order processWithLLM makes them
ToolCallReported(tc, result) ==
    (IF ToolSet_Get(tc.name)
     THEN <<Ev("ToolExec", tc.id, tc.name, result.success)>> ELSE <<>>)
    \o <<Ev("OnToolResult", result.call_id, result.error, result.success),
         Ev("OnMessage", "", "tool_result", TRUE)>>

(***************************************************************************)
(* Soul: construction.                                                     *)
(***************************************************************************)
\* state left alone by the Soul specification
RxIdle == [pc |-> "off"]

\* the components that a specification does not run
LifeOff == [on |-> FALSE]
MgrOff == [on |-> FALSE]
CalcOff == [fn |-> "off"]

\* NewSoul, with the runtime's client chosen by the caller
SoulInit ==
    /\ msgCh = <<>>
    /\ DoneCh = 0
    /\ running = FALSE
    /\ cancelCh = 0
    /\ closedChs = {}
    /\ waitCh = 0
    /\ llmHistory = <<>>
    /\ runPc = "idle"
    /\ step = 0
    /\ pending = <<>>
    /\ attempt = 0
    /\ hasClient \in BOOLEAN
    /\ ctxDone = FALSE
    /\ trace = <<>>
    /\ sent = 0
    /\ reqs = 0

(***************************************************************************)
(* Soul: callers (SendMessage, Cancel, the context, the DoneCh consumer).  *)
(***************************************************************************)
InboxHasRoom_oneMore(q) == Len(q) <= InboxCap

\* case s.msgCh <- msg is ready iff the buffer of msgCh is not full
InboxHasRoom(q) == Len(q) < InboxCap

Enqueue_front(q, t) == <<t>> \o q

\* a send on msgCh puts the message behind the buffered ones
Enqueue(q, t) == Append(q, t)

\* Soul.SendMessage: non-blocking send on msgCh
SendMessageStep(t) ==
    /\ sent < MaxSends
    /\ IF InboxHasRoom(msgCh)
       THEN msgCh' = Enqueue(msgCh, t) /\ sent' = sent + 1
       ELSE UNCHANGED <<msgCh, sent>>
    /\ UNCHANGED <<DoneCh, running, cancelCh, closedChs, waitCh, llmHistory,
                   runPc, step, pending, attempt, hasClient, ctxDone,
                   trace, reqs>>

SendMessage(t) == SendMessageStep(t) /\ UNCHANGED <<rx, auxVars>>

\* Soul.Cancel: close the current channel unless closed, install a fresh one
CancelClosed == closedChs \cup {cancelCh}

\* Soul.Cancel called by another goroutine
CancelInstalls_same(c) == c

\* Soul.Cancel: s.cancelCh = make(chan struct{}), a channel not used before
CancelInstalls(c) == c + 1

CancelStep ==
    /\ closedChs' = CancelClosed
    /\ cancelCh' = CancelInstalls(cancelCh)
    /\ UNCHANGED <<msgCh, DoneCh, running, waitCh, llmHistory, runPc, step,
                   pending, attempt, hasClient, ctxDone, trace,
                   sent, reqs>>

Cancel ==
    /\ cancelCh < MaxCancels
    /\ CancelStep
    /\ UNCHANGED <<rx, auxVars>>

\* the caller cancels the context it passed to Run
CtxCancelStep ==
    /\ ~ctxDone
    /\ ctxDone' = TRUE
    /\ UNCHANGED <<msgCh, DoneCh, running, cancelCh, closedChs, waitCh,
                   llmHistory, runPc, step, pending, attempt, hasClient,
                   trace, sent, reqs>>

CtxCancel == CtxCancelStep /\ UNCHANGED <<rx, auxVars>>

\* a consumer receives from DoneCh (main: <-soulInstance.DoneCh)
ConsumeDone ==
    /\ DoneCh > 0
    /\ DoneCh' = DoneCh - 1
    /\ UNCHANGED <<msgCh, running, cancelCh, closedChs, waitCh, llmHistory,
                   runPc, step, pending, attempt, hasClient, ctxDone,
                   trace, sent, reqs, rx, auxVars>>

(***************************************************************************)
(* Soul: Run.                                                              *)
(***************************************************************************)
\* Run is entered: the running flag is taken under s.mu and the mutex is
\* released; Run is at the head of its loop, the select not yet entered
RunEnter ==
    /\ running' = TRUE
    /\ runPc' = "loop"
    /\ UNCHANGED <<msgCh, DoneCh, cancelCh, closedChs, waitCh, llmHistory,
                   step, pending, attempt, hasClient, ctxDone, trace,
                   sent, reqs>>

RunStart ==
    /\ runPc = "idle"
    /\ ~running
    /\ RunEnter
    /\ UNCHANGED <<rx, auxVars>>

\* an iteration of the loop enters the select, which evaluates s.cancelCh
\* (read without s.mu): the channel a Cancel installed since Run was entered
\* or since the send on DoneCh is the one the select waits on
RunSelectStep ==
    /\ runPc = "loop"
    /\ waitCh' = cancelCh
    /\ runPc' = "select"
    /\ UNCHANGED <<msgCh, DoneCh, running, cancelCh, closedChs, llmHistory,
                   step, pending, attempt, hasClient, ctxDone, trace,
                   sent, reqs>>

RunSelect == RunSelectStep /\ UNCHANGED <<rx, auxVars>>

\* select case <-ctx.Done(): Run returns ctx.Err(), the deferred reset runs
RunCtxDoneStep ==
    /\ runPc = "select"
    /\ ctxDone
    /\ runPc' = "returned"
    /\ running' = FALSE
    /\ UNCHANGED <<msgCh, DoneCh, cancelCh, closedChs, waitCh, llmHistory,
                   step, pending, attempt, hasClient, ctxDone, trace,
                   sent, reqs>>

RunCtxDone == RunCtxDoneStep /\ UNCHANGED <<rx, auxVars>>

\* select case <-s.cancelCh: Run returns "soul cancelled"
RunCancelledStep ==
    /\ runPc = "select"
    /\ waitCh \in closedChs
    /\ runPc' = "returned"
    /\ running' = FALSE
    /\ UNCHANGED <<msgCh, DoneCh, cancelCh, closedChs, waitCh, llmHistory,
                   step, pending, attempt, hasClient, ctxDone, trace,
                   sent, reqs>>

RunCancelled == RunCancelledStep /\ UNCHANGED <<rx, auxVars>>

\* handleError: OnError is called with the error, then Run signals DoneCh
Fail(name, cause) ==
    /\ trace' = Append(trace, Ev("OnError", cause, name, FALSE))
    /\ runPc' = "signal"

\* the user message appended to the LLM history by processWithLLM
UserMsg == LLMMsg("user", "u", <<>>, "")

\* select case msg := <-s.msgCh, then processMessage(msg) up to its first
\* blocking call
RunRecvStep ==
    /\ runPc = "select"
    /\ msgCh # <<>>
    /\ msgCh' = Tail(msgCh)
    /\ LET msg == Head(msgCh) IN
       CASE msg = "user_input" ->
              IF hasClient
              THEN /\ llmHistory' = Append(llmHistory, UserMsg)
                   /\ trace' = <<>>
                   /\ step' = 0
                   /\ runPc' = "chat"
                   /\ UNCHANGED <<cancelCh, closedChs>>
              ELSE /\ trace' = <<Ev("OnMessage", "", "assistant", TRUE)>>
                   /\ runPc' = "signal"
                   /\ UNCHANGED <<llmHistory, step, cancelCh, closedChs>>
         [] msg = "cancel" ->
              /\ closedChs' = CancelClosed
              /\ cancelCh' = CancelInstalls(cancelCh)
              /\ trace' = <<>>
              /\ runPc' = "signal"
              /\ UNCHANGED <<llmHistory, step>>
         [] OTHER ->
              /\ trace' = <<Ev("OnError", "", "unknown message type", FALSE)>>
              /\ runPc' = "signal"
              /\ UNCHANGED <<llmHistory, step, cancelCh, closedChs>>
    /\ UNCHANGED <<DoneCh, running, waitCh, pending, attempt, hasClient,
                   ctxDone, sent, reqs>>

RunRecv == RunRecvStep /\ UNCHANGED <<rx, auxVars>>

DoneChAccepts_always(n) == TRUE

\* the non-blocking send on DoneCh succeeds iff the buffer has room
DoneChAccepts(n) == n < DoneCap

\* Run: select { case s.DoneCh <- struct{}{}: default: }, which leaves Run
\* at the head of its loop
DoneSendProceeds_never(n) == FALSE

\* the select on DoneCh has a default case: it never blocks
DoneSendProceeds(n) == TRUE

RunSignalDoneStep ==
    /\ runPc = "signal"
    /\ DoneSendProceeds(DoneCh)
    /\ LET ok == DoneChAccepts(DoneCh) IN
       /\ DoneCh' = IF ok THEN DoneCh + 1 ELSE DoneCh
       /\ trace' = Append(trace, Ev("Done", "", "", ok))
    /\ runPc' = "loop"
    /\ UNCHANGED <<msgCh, running, cancelCh, closedChs, waitCh, llmHistory,
                   step, pending, attempt, hasClient, ctxDone, sent, reqs>>

RunSignalDone == RunSignalDoneStep /\ UNCHANGED <<rx, auxVars>>

(***************************************************************************)
(* Soul: the agent loop of processWithLLM, with the retrying client of     *)
(* main (RetryableClient.ChatWithTools) as runtime.LLMClient.              *)
(***************************************************************************)
\* the text of an error value: APIError.Error() names the status code only
\* when StatusCode > 0
ErrTag(e) ==
    IF e.kind = "api"
    THEN IF e.status > 0 THEN "api" \o ToString(e.status) ELSE "api"
    ELSE e.kind

LoopContinues_oneMore(st) == st <= MaxSteps

\* loop condition of the agent loop: step < s.runtime.MaxSteps
LoopContinues(st) == st < MaxSteps

ClientLastAttempt_never(att) == FALSE

ClientLastAttempt_early(att) == att + 1 >= ClientMaxRetries

\* RetryableClient.ChatWithTools: attempt >= c.config.MaxRetries
ClientLastAttempt(att) == att >= ClientMaxRetries

ClientShouldAbort_never(e) == FALSE

\* RetryableClient.ChatWithTools: !IsRetryableError(err)
ClientShouldAbort(e) == ~IsRetryableError(e)

\* head of the agent loop: the next ChatWithTools call is made, or the loop
\* ends and processWithLLM returns the maximum-steps error
SoulChatStep ==
    /\ runPc = "chat"
    /\ IF LoopContinues(step)
       THEN /\ trace' = Append(trace, Ev("LLMCall", "", "", TRUE))
            /\ attempt' = 0
            /\ runPc' = "attempt"
       ELSE /\ Fail("max steps", ToString(MaxSteps))
            /\ UNCHANGED attempt
    /\ UNCHANGED <<msgCh, DoneCh, running, cancelCh, closedChs, waitCh,
                   llmHistory, step, pending, hasClient, ctxDone,
                   sent, reqs>>

SoulChat == SoulChatStep /\ UNCHANGED <<rx, auxVars>>

\* the assistant message of a response's first choice
AssistantMsg(o) ==
    LLMMsg("assistant", IF o.kind = "text" THEN "done" ELSE "", o.calls, "")

\* processWithLLM after ChatWithTools returned response o without error
SoulHandleResponse(o, tr) ==
    IF o.kind = "nochoice"
    THEN /\ trace' = Append(tr, Ev("OnError", "", "no choices", FALSE))
         /\ runPc' = "signal"
         /\ UNCHANGED <<llmHistory, pending>>
    ELSE /\ llmHistory' = Append(llmHistory, AssistantMsg(o))
         /\ IF Len(o.calls) > 0
            THEN /\ pending' = o.calls
                 /\ trace' = tr
                 /\ runPc' = "tools"
            ELSE /\ pending' = <<>>
                 /\ trace' = Append(tr, Ev("OnMessage", "", "assistant", TRUE))
                 /\ runPc' = "signal"

SoulLLMFailed_rollback(cause, tr) ==
    /\ trace' = Append(tr, Ev("OnError", cause, "LLM request failed", FALSE))
    /\ runPc' = "signal"
    /\ llmHistory' = SubSeq(llmHistory, 1, Len(llmHistory) - 1)
    /\ UNCHANGED pending

\* processWithLLM after ChatWithTools returned an error
SoulLLMFailed(cause, tr) ==
    /\ trace' = Append(tr, Ev("OnError", cause, "LLM request failed", FALSE))
    /\ runPc' = "signal"
    /\ UNCHANGED <<llmHistory, pending>>

\* RetryableClient.ChatWithTools and processWithLLM after the base client
\* answered the request of attempt att with outcome o
ClientOutcome(o, att, tr) ==
    IF o.kind # "err"
    THEN SoulHandleResponse(o, tr)
    ELSE IF ClientShouldAbort(o.err)
    THEN SoulLLMFailed(ErrTag(o.err), tr)
    ELSE IF ClientLastAttempt(att)
    THEN SoulLLMFailed("max retries:" \o ErrTag(o.err), tr)
    ELSE /\ trace' = tr
         /\ runPc' = "backoff"
         /\ UNCHANGED <<llmHistory, pending>>

\* RetryableClient.ChatWithTools: the context check at the head of an
\* iteration passes and inner.ChatWithTools is called
ClientIssueStep ==
    /\ runPc = "attempt"
    /\ ~ctxDone
    /\ runPc' = "inflight"
    /\ UNCHANGED <<msgCh, DoneCh, running, cancelCh, closedChs, waitCh,
                   llmHistory, step, pending, attempt, hasClient, ctxDone,
                   trace, sent, reqs>>

\* inner.ChatWithTools returns outcome o, whatever has become of the context
\* since the request was issued; the rest of the iteration of
\* RetryableClient.ChatWithTools up to its wait classifies the error
ClientRequestStep(o) ==
    /\ runPc = "inflight"
    /\ ClientOutcome(o, attempt,
                     Append(trace, Ev("Attempt", "", ErrTag(o.err), o.kind # "err")))
    /\ UNCHANGED <<msgCh, DoneCh, running, cancelCh, closedChs, waitCh, step,
                   attempt, hasClient, ctxDone, sent>>

\* the request, counted against the requests the modelled base client
\* answers
ClientRequest(o) ==
    /\ reqs < MaxRequests
    /\ reqs' = reqs + 1
    /\ ClientRequestStep(o)

\* RetryableClient.ChatWithTools: the context check at the head of the
\* loop finds ctx cancelled and ctx.Err() is returned
ClientCtxAbort ==
    /\ runPc = "attempt"
    /\ ctxDone
    /\ SoulLLMFailed("ctx", trace)
    /\ UNCHANGED <<msgCh, DoneCh, running, cancelCh, closedChs, waitCh, step,
                   attempt, hasClient, ctxDone, sent, reqs>>

ClientAttempt ==
    /\ \/ ClientCtxAbort
       \/ ClientIssueStep
    /\ UNCHANGED <<rx, auxVars>>

ClientIssue == ClientIssueStep /\ UNCHANGED <<rx, auxVars>>

ClientReply ==
    /\ \E o \in Outcomes : ClientRequest(o)
    /\ UNCHANGED <<rx, auxVars>>

\* RetryableClient.ChatWithTools: select case <-time.After(waitTime)
ClientBackoffElapsedStep ==
    /\ runPc = "backoff"
    /\ attempt' = attempt + 1
    /\ runPc' = "attempt"
    /\ UNCHANGED <<msgCh, DoneCh, running, cancelCh, closedChs, waitCh,
                   llmHistory, step, pending, hasClient, ctxDone, trace,
                   sent, reqs>>

ClientBackoffElapsed == ClientBackoffElapsedStep /\ UNCHANGED <<rx, auxVars>>

\* RetryableClient.ChatWithTools: select case <-ctx.Done() during the wait
ClientBackoffCancelledStep ==
    /\ runPc = "backoff"
    /\ ctxDone
    /\ SoulLLMFailed("ctx", trace)
    /\ UNCHANGED <<msgCh, DoneCh, running, cancelCh, closedChs, waitCh, step,
                   attempt, hasClient, ctxDone, sent, reqs>>

ClientBackoffCancelled == ClientBackoffCancelledStep /\ UNCHANGED <<rx, auxVars>>

NextCall_last(p) == p[Len(p)]

\* for _, tc := range assistantMsg.ToolCalls: the call handled next
NextCall(p) == Head(p)

\* body of the loop over assistantMsg.ToolCalls for one tool call, up to
\* the call of executeToolCall: the tool call is announced to the handlers
SoulToolBeginStep ==
    /\ runPc = "tools"
    /\ pending # <<>>
    /\ trace' = trace \o ToolCallAnnounced(NextCall(pending))
    /\ runPc' = "exec"
    /\ UNCHANGED <<msgCh, DoneCh, running, cancelCh, closedChs, waitCh,
                   llmHistory, step, pending, attempt, hasClient, ctxDone,
                   sent, reqs>>

SoulToolBegin == SoulToolBeginStep /\ UNCHANGED <<rx, auxVars>>

\* executeToolCall returns (execOk: tool.Execute returned no error, which
\* is for the tool and its arguments to decide); the rest of the body: the
\* result is reported and the tool message appended; after the last call
\* the agent loop continues with the next step
SoulToolCallStep(execOk) ==
    /\ runPc = "exec"
    /\ LET tc == NextCall(pending)
           result == ExecuteToolCall(tc, execOk)
       IN /\ ToolSet_Get(tc.name) \/ execOk
          /\ trace' = trace \o ToolCallReported(tc, result)
          /\ llmHistory' = Append(llmHistory, ToolResultMsg(tc, result))
    /\ pending' = Tail(pending)
    /\ IF Tail(pending) = <<>>
       THEN step' = step + 1 /\ runPc' = "chat"
       ELSE runPc' = "tools" /\ UNCHANGED step
    /\ UNCHANGED <<msgCh, DoneCh, running, cancelCh, closedChs, waitCh,
                   attempt, hasClient, ctxDone, sent, reqs>>

SoulToolCall ==
    /\ \E execOk \in BOOLEAN : SoulToolCallStep(execOk)
    /\ UNCHANGED <<rx, auxVars>>

(***************************************************************************)
(* Soul: specification.                                                    *)
(***************************************************************************)
Init == SoulInit /\ rx = RxIdle /\ life = LifeOff /\ mgr = MgrOff /\ calc = CalcOff

Next ==
    \/ \E t \in MsgTypes : SendMessage(t)
    \/ Cancel
    \/ CtxCancel
    \/ ConsumeDone
    \/ RunStart
    \/ RunSelect
    \/ RunCtxDone
    \/ RunCancelled
    \/ RunRecv
    \/ RunSignalDone
    \/ SoulChat
    \/ ClientAttempt
    \/ ClientReply
    \/ ClientBackoffElapsed
    \/ ClientBackoffCancelled
    \/ SoulToolBegin
    \/ SoulToolCall

Spec == Init /\ [][Next]_vars

(***************************************************************************)
(* Retry executor: one run of ExecuteWithRetry (retry.go).                 *)
(*                                                                         *)
(* rx.pc         "head"  at the head of the loop                           *)
(*               "inop"  inside fn(ctx)                                    *)
(*               "wait"  in the select on ctx.Done() and time.After        *)
(*               "ret"   returned                                          *)
(* rx.max        config.MaxRetries                                         *)
(* rx.attempt    the loop variable                                         *)
(* rx.lastErr    lastErr                                                   *)
(* rx.hasPred    isRetryable # nil                                         *)
(* rx.hasCb      onRetry # nil                                             *)
(* rx.result     the returned value                                        *)
(* rx.ctxDone    ctx has been cancelled                                    *)
(* Observation:                                                            *)
(* rx.opLog      the outcome of every fn call, in order                    *)
(* rx.retryLog   the attempt argument of every onRetry call, in order      *)
(* rx.waits      number of waits begun                                     *)
(* rx.lateCalls  number of fn calls begun after ctx was cancelled          *)
(* rx.firedAt    rx.pc at the moment ctx was cancelled, "" before          *)
(***************************************************************************)
\* outcomes of fn explored: success, two retryable errors, a terminal one
OpOutcomes == {NoErr, ApiErr(503), NetworkErr, ApiErr(401)}

\* results of ExecuteWithRetry
RxNone == [kind |-> "none", n |-> 0, err |-> NoErr]
RxOk == [kind |-> "ok", n |-> 0, err |-> NoErr]
\* ctx.Err()
RxCancelledErr == [kind |-> "cancelled", n |-> 0, err |-> NoErr]
\* the error of fn, returned as it is
RxPlain(e) == [kind |-> "plain", n |-> 0, err |-> e]
\* fmt.Errorf("max retries (%d) exceeded: %w", config.MaxRetries, lastErr)
RxMaxRetries(n, e) == [kind |-> "maxretries", n |-> n, err |-> e]

\* the state at the call of ExecuteWithRetry
RxInit(max, hasPred, hasCb) ==
    [pc |-> "head", max |-> max, attempt |-> 0, lastErr |-> NoErr,
     hasPred |-> hasPred, hasCb |-> hasCb, result |-> RxNone,
     ctxDone |-> FALSE, opLog |-> <<>>, retryLog |-> <<>>, waits |-> 0,
     lateCalls |-> 0, firedAt |-> ""]

RxLoopCond_strict(att, max) == att < max

\* loop condition: attempt <= config.MaxRetries
RxLoopCond(att, max) == att <= max

RxCtxCheck_skip(done) == FALSE

\* select { case <-ctx.Done(): return ctx.Err(); default: }
RxCtxCheck(done) == done

RxNotRetryable_never(hasPred, e) == FALSE

\* isRetryable != nil && !isRetryable(err), with IsRetryableError passed
RxNotRetryable(hasPred, e) == hasPred /\ ~IsRetryableError(e)

RxLastAttempt_late(att, max) == att > max

\* attempt >= config.MaxRetries
RxLastAttempt(att, max) == att >= max

RxRetryNumber_zeroBased(att) == att

\* the first argument of onRetry: attempt+1
RxRetryNumber(att) == att + 1

RxLastErr_first(prev, e) == IF prev = NoErr THEN e ELSE prev

\* lastErr = err
RxLastErr(prev, e) == e

RxReturn(r, res) == [r EXCEPT !.pc = "ret", !.result = res]

\* the head of the loop: loop condition, context check, fn is entered
RxAtHead(r) ==
    IF ~RxLoopCond(r.attempt, r.max)
    THEN RxReturn(r, RxMaxRetries(r.max, r.lastErr))
    ELSE IF RxCtxCheck(r.ctxDone)
    THEN RxReturn(r, RxCancelledErr)
    ELSE [r EXCEPT !.pc = "inop",
                   !.lateCalls = IF r.ctxDone THEN @ + 1 ELSE @]

RxBegin ==
    /\ rx.pc = "head"
    /\ rx' = RxAtHead(rx)
    /\ UNCHANGED <<soulVars, auxVars>>

\* the body of the loop after fn returned e, up to the wait
RxAfterOp(r0, e) ==
    LET r == [r0 EXCEPT !.opLog = Append(@, e)] IN
    IF e = NoErr THEN RxReturn(r, RxOk)
    ELSE LET r1 == [r EXCEPT !.lastErr = RxLastErr(@, e)] IN
         IF RxNotRetryable(r1.hasPred, e) THEN RxReturn(r1, RxPlain(e))
         ELSE IF RxLastAttempt(r1.attempt, r1.max)
         THEN RxReturn(r1, RxMaxRetries(r1.max, r1.lastErr))
         ELSE [r1 EXCEPT !.pc = "wait",
                         !.waits = @ + 1,
                         !.retryLog = IF r1.hasCb
                                      THEN Append(@, RxRetryNumber(r1.attempt))
                                      ELSE @]

\* fn(ctx) returns
RxOpReturn ==
    /\ rx.pc = "inop"
    /\ \E e \in OpOutcomes : rx' = RxAfterOp(rx, e)
    /\ UNCHANGED <<soulVars, auxVars>>

\* select case <-time.After(waitTime): the next iteration
RxWaitElapsed ==
    /\ rx.pc = "wait"
    /\ rx' = [rx EXCEPT !.pc = "head", !.attempt = @ + 1]
    /\ UNCHANGED <<soulVars, auxVars>>

\* select case <-ctx.Done() during the wait
RxWaitCancelled ==
    /\ rx.pc = "wait"
    /\ rx.ctxDone
    /\ rx' = RxReturn(rx, RxCancelledErr)
    /\ UNCHANGED <<soulVars, auxVars>>

\* the caller cancels ctx
RxCancel ==
    /\ rx.pc \in {"head", "inop", "wait", "ret"}
    /\ ~rx.ctxDone
    /\ rx' = [rx EXCEPT !.ctxDone = TRUE, !.firedAt = rx.pc]
    /\ UNCHANGED <<soulVars, auxVars>>

\* a Soul that is constructed and never started
SoulIdle ==
    /\ msgCh = <<>>
    /\ DoneCh = 0
    /\ running = FALSE
    /\ cancelCh = 0
    /\ closedChs = {}
    /\ waitCh = 0
    /\ llmHistory = <<>>
    /\ runPc = "idle"
    /\ step = 0
    /\ pending = <<>>
    /\ attempt = 0
    /\ hasClient = FALSE
    /\ ctxDone = FALSE
    /\ trace = <<>>
    /\ sent = 0
    /\ reqs = 0

InitRetry ==
    /\ SoulIdle
    /\ life = LifeOff /\ mgr = MgrOff /\ calc = CalcOff
    /\ \E max \in 0..MaxRetriesBound, hasPred \in BOOLEAN, hasCb \in BOOLEAN :
       rx = RxInit(max, hasPred, hasCb)

NextRetry ==
    \/ RxBegin
    \/ RxOpReturn
    \/ RxWaitElapsed
    \/ RxWaitCancelled
    \/ RxCancel

SpecRetry == InitRetry /\ [][NextRetry]_vars

(***************************************************************************)
(* The Soul with its retrying client and, beside it, ExecuteWithRetry run  *)
(* over the same requests: every ChatWithTools call of a turn starts a run *)
(* of ExecuteWithRetry with the client's MaxRetries, IsRetryableError as   *)
(* predicate and a callback; fn is the request of the base client, so both *)
(* loops see the same outcomes, and both are given the same context.       *)
(* The context is what cancels them: Soul.Cancel is not called.            *)
(***************************************************************************)
\* processWithLLM calls ChatWithTools; ExecuteWithRetry is called
PairChat ==
    /\ SoulChatStep
    /\ rx' = IF LoopContinues(step)
             THEN [RxInit(ClientMaxRetries, TRUE, TRUE)
                     EXCEPT !.ctxDone = ctxDone,
                            !.firedAt = IF ctxDone THEN "head" ELSE ""]
             ELSE rx
    /\ UNCHANGED auxVars

\* the head of an iteration of both loops: the context check, and the
\* request is issued when it passes
PairAttempt ==
    /\ ClientCtxAbort \/ ClientIssueStep
    /\ rx' = RxAtHead(rx)
    /\ UNCHANGED auxVars

\* the request returns to both loops, which run up to their wait
PairReply ==
    \E o \in Outcomes :
       /\ ClientRequest(o)
       /\ rx' = RxAfterOp(rx, o.err)
       /\ UNCHANGED auxVars

\* the wait of both loops elapses
PairBackoffElapsed ==
    /\ ClientBackoffElapsedStep
    /\ rx' = [rx EXCEPT !.pc = "head", !.attempt = @ + 1]
    /\ UNCHANGED auxVars

\* the wait of both loops ends with ctx.Done()
PairBackoffCancelled ==
    /\ ClientBackoffCancelledStep
    /\ rx' = RxReturn(rx, RxCancelledErr)
    /\ UNCHANGED auxVars

\* the caller cancels the context
PairCtxCancel ==
    /\ CtxCancelStep
    /\ rx' = IF rx.pc \in {"head", "inop", "wait", "ret"}
             THEN [rx EXCEPT !.ctxDone = TRUE, !.firedAt = rx.pc]
             ELSE rx
    /\ UNCHANGED auxVars

NextPair ==
    \/ \E t \in MsgTypes : SendMessage(t)
    \/ PairCtxCancel
    \/ ConsumeDone
    \/ RunStart
    \/ RunSelect
    \/ RunCtxDone
    \/ RunRecv
    \/ RunSignalDone
    \/ PairChat
    \/ PairAttempt
    \/ PairReply
    \/ PairBackoffElapsed
    \/ PairBackoffCancelled
    \/ SoulToolBegin
    \/ SoulToolCall

SpecPair == Init /\ [][NextPair]_vars

(***************************************************************************)
(* Observations used by the properties.                                    *)
(***************************************************************************)
\* the positions of tr whose event is one of evs
EvIdx(tr, evs) == {i \in 1..Len(tr) : tr[i].ev \in evs}

NumEv(tr, ev) == Cardinality(EvIdx(tr, {ev}))

\* the turn of the message received last is over (or none was received)
TurnOver == runPc \in {"idle", "loop", "select", "signal", "returned"}

\* a turn with the LLM is in progress
InTurn == runPc \in {"chat", "attempt", "inflight", "backoff", "tools", "exec"}

\* position i of h is an assistant message that carries tool calls
HasCalls(h, i) == h[i].role = "assistant" /\ Len(h[i].tool_calls) >= 1

\* the assistant message at i is followed by one tool message per call, with
\* the ids of the calls in their order, and by no further tool message
Answered(h, i) ==
    LET k == Len(h[i].tool_calls) IN
    /\ i + k <= Len(h)
    /\ \A j \in 1..k :
          /\ h[i + j].role = "tool"
          /\ h[i + j].tool_call_id = h[i].tool_calls[j].id
    /\ i + k + 1 <= Len(h) => h[i + k + 1].role # "tool"

(***************************************************************************)
(* Properties.                                                             *)
(***************************************************************************)
\* C1: whenever a turn has ended (by a final text response, an LLM error, an
\* empty choices list or the max-steps limit), every assistant message of
\* the LLM history with k >= 1 tool calls is immediately followed by exactly
\* k role=tool messages whose tool_call_id are the ids of its calls, in order.
C1_ToolCallsAnswered ==
    TurnOver => \A i \in 1..Len(llmHistory) :
                   HasCalls(llmHistory, i) => Answered(llmHistory, i)

\* two turns are over, the history holds a response with two tool calls
C1_Witness ==
    /\ runPc = "select"
    /\ Cardinality({i \in 1..Len(llmHistory) : llmHistory[i].role = "user"}) = 2
    /\ \E i \in 1..Len(llmHistory) :
          HasCalls(llmHistory, i) /\ Len(llmHistory[i].tool_calls) = 2
    /\ NumEv(trace, "OnError") = 1

\* the --yolo flag of main defaults to false
RuntimeYOLO == FALSE

\* C2: a tool whose name the approval manager does not report as approved is
\* invoked only after OnApprovalNeeded was called for that tool call (and
\* answered with approve).
C2_ApprovalBeforeInvoke ==
    \A i \in EvIdx(trace, {"ToolExec"}) :
       ~IsApproved(NewManager(RuntimeYOLO), trace[i].name)
          => \E j \in 1..(i - 1) :
                /\ trace[j].ev = "OnApprovalNeeded"
                /\ trace[j].id = trace[i].id

\* C3 (as stated): once the processing of a dequeued message has finished,
\* one item has been written to DoneCh for it, whatever the consumer of
\* DoneCh has done.
C3_DoneWrittenPerMessage ==
    (runPc = "select" /\ trace # <<>>)
       => Last(trace).ev = "Done" /\ Last(trace).ok

\* C3 (amended): for every dequeued message the loop makes exactly one
\* non-blocking send on DoneCh once the processing has finished: the item is
\* written iff DoneCh holds no unconsumed item and is dropped otherwise, so
\* DoneCh never holds more than DoneCap items.
C3_OneSendAttemptPerMessage ==
    /\ [](/\ DoneCh <= DoneCap
          /\ (InTurn \/ runPc = "signal") => NumEv(trace, "Done") = 0
          /\ (runPc \in {"loop", "select"} /\ trace # <<>>)
                => NumEv(trace, "Done") = 1 /\ Last(trace).ev = "Done")
    /\ [][(runPc = "signal" /\ runPc' # "signal")
             => /\ Last(trace').ok = (DoneCh = 0)
                /\ DoneCh' = IF DoneCh = 0 THEN 1 ELSE DoneCh]_vars

\* a message has been processed while DoneCh still held the item of the
\* message before: its item was dropped
C3_Witness ==
    /\ runPc = "select"
    /\ trace # <<>>
    /\ Last(trace).ev = "Done"
    /\ ~Last(trace).ok
    /\ DoneCh = 1

\* executeToolCall for tc has returned and tr holds what was observed of it:
\* the tool of tc is not registered, or its Execute, the invocation observed
\* last, returned an error
CallFails(tc, tr) ==
    \/ ~ToolSet_Get(tc.name)
    \/ LET x == EvIdx(tr, {"ToolExec"})
           i == CHOOSE k \in x : \A j \in x : j <= k
       IN x # {} /\ tr[i].id = tc.id /\ ~tr[i].ok

\* C4: when a tool call names an unregistered tool or its tool returns an
\* error, the ToolResult handed to OnToolResult carries the call's id,
\* success=false and a non-empty error; no error is reported and the turn
\* goes on: "Error: <error>" is appended to the LLM history as the role=tool
\* message of that call id, the next call of the response is handled or,
\* after the last one, the loop is back at its head with the step counted;
\* from its head the loop issues the next LLM call while steps remain.
C4_ToolFailureIsAnswered ==
    /\ [][(runPc = "exec" /\ pending' # pending
              /\ CallFails(Head(pending), trace'))
             => LET tc == Head(pending)
                    n == Len(trace')
                    m == Last(llmHistory')
                IN /\ n >= 2
                   /\ trace'[n - 1].ev = "OnToolResult"
                   /\ trace'[n - 1].id = tc.id
                   /\ ~trace'[n - 1].ok
                   /\ trace'[n - 1].name # ""
                   /\ trace'[n] = Ev("OnMessage", "", "tool_result", TRUE)
                   /\ NumEv(trace', "OnError") = 0
                   /\ Len(llmHistory') = Len(llmHistory) + 1
                   /\ m.role = "tool"
                   /\ m.tool_call_id = tc.id
                   /\ m.content = "Error: " \o trace'[n - 1].name
                   /\ pending' = Tail(pending)
                   /\ IF pending' # <<>>
                      THEN runPc' = "tools" /\ step' = step
                      ELSE runPc' = "chat" /\ step' = step + 1]_vars
    /\ [][(runPc = "chat" /\ runPc' # "chat" /\ LoopContinues(step))
             => /\ Last(trace').ev = "LLMCall"
                /\ runPc' = "attempt"]_vars

\* in one turn a call of an unregistered tool and a call whose tool returned
\* an error were answered, and the LLM was called again
C4_Witness ==
    \E i, j, k \in 1..Len(trace) :
       /\ i < j /\ j < k
       /\ trace[i].ev = "OnToolResult" /\ trace[i].name = "tool not found"
       /\ trace[j].ev = "OnToolResult" /\ trace[j].name = "exec failed"
       /\ trace[k].ev = "LLMCall"

\* the turn in progress or ended last was ended by nothing but the step
\* limit: every response of the LLM carried tool calls
OnlyToolResponses ==
    /\ NumEv(trace, "LLMCall") >= 1
    /\ \A i \in 1..Len(trace) :
          /\ trace[i] # Ev("OnMessage", "", "assistant", TRUE)
          /\ trace[i].ev = "OnError" => trace[i].name = "max steps"

\* C5: a turn issues at most MaxSteps LLM chat calls; a turn in which every
\* response carried tool calls has issued exactly MaxSteps calls when it is
\* over, and then reported "max steps (MaxSteps) exceeded" through OnError
\* exactly once, as the last event before Done.
C5_AtMostMaxSteps ==
    /\ NumEv(trace, "LLMCall") <= MaxSteps
    /\ (runPc = "select" /\ OnlyToolResponses)
          => LET n == Len(trace) IN
             /\ NumEv(trace, "LLMCall") = MaxSteps
             /\ EvIdx(trace, {"OnError"}) = {n - 1}
             /\ trace[n - 1] = Ev("OnError", ToString(MaxSteps), "max steps", FALSE)
             /\ trace[n].ev = "Done"

\* a turn ended by the step limit
C5_Witness ==
    /\ runPc = "select"
    /\ OnlyToolResponses
    /\ NumEv(trace, "LLMCall") = MaxSteps
    /\ NumEv(trace, "OnToolResult") >= MaxSteps

\* the messages of the LLM history after the user message appended last
TurnHist ==
    LET us == {i \in 1..Len(llmHistory) : llmHistory[i].role = "user"}
        u == IF us = {} THEN 0 ELSE CHOOSE i \in us : \A j \in us : j <= i
    IN SubSeq(llmHistory, u + 1, Len(llmHistory))

\* the ids of a list of tool calls
IdsOf(calls) == [i \in 1..Len(calls) |-> calls[i].id]

\* the call ids requested by the assistant messages of h, in order
RECURSIVE CallIds(_)
CallIds(h) ==
    IF h = <<>> THEN <<>>
    ELSE (IF Head(h).role = "assistant" THEN IdsOf(Head(h).tool_calls)
          ELSE <<>>) \o CallIds(Tail(h))

\* the tool_call_id of the tool messages of h, in order
AnsweredIds(h) ==
    LET ts == SelectSeq(h, LAMBDA m : m.role = "tool")
    IN [i \in 1..Len(ts) |-> ts[i].tool_call_id]

\* the ids passed to OnToolResult, in order
ResultIds(tr) ==
    LET rs == SelectSeq(tr, LAMBDA e : e.ev = "OnToolResult")
    IN [i \in 1..Len(rs) |-> rs[i].id]

\* C6: during a turn the tool calls of a response are handled one at a time
\* in the order the response lists them, their role=tool messages are
\* appended in that order, and the loop is at an LLM call only when the
\* results of all calls requested so far have been appended.
C6_CallsInOrder ==
    InTurn =>
       LET called == CallIds(TurnHist)
           answered == AnsweredIds(TurnHist)
           k == Len(answered)
       IN /\ k <= Len(called)
          /\ answered = SubSeq(called, 1, k)
          /\ ResultIds(trace) = answered
          /\ runPc \in {"tools", "exec"}
                => IdsOf(pending) = SubSeq(called, k + 1, Len(called))
          /\ runPc \notin {"tools", "exec"}
                => pending = <<>> /\ answered = called

\* the loop is at the LLM call that follows a response with two tool calls
C6_Witness ==
    /\ runPc = "attempt"
    /\ AnsweredIds(TurnHist) = <<"c1", "c2">>
    /\ Last(trace).ev = "LLMCall"

\* the handler calls and the send on DoneCh among the observed events
HandlerEvents(tr) ==
    SelectSeq(tr, LAMBDA e : e.ev \in {"OnToolCall", "OnMessage",
                                       "OnToolResult", "OnError", "Done"})

\* C7: for each tool call of a turn the handlers are called in the order
\* OnToolCall(id), OnMessage(tool_call), OnToolResult(same id),
\* OnMessage(tool_result), the last two once the tool has returned; the
\* OnMessage of the final assistant text comes after the events of all tool
\* calls; the send on DoneCh comes after every other event of the turn,
\* OnError included.
C7_EventOrder ==
    LET h == HandlerEvents(trace)
        n == Len(h)
    IN /\ \A i \in 1..n :
             h[i].ev = "OnToolCall"
                => /\ i + 1 <= n
                   /\ h[i + 1] = Ev("OnMessage", "", "tool_call", TRUE)
                   /\ (runPc = "exec" /\ i + 1 = n) \/ i + 3 <= n
                   /\ i + 3 <= n
                         => /\ h[i + 2].ev = "OnToolResult"
                            /\ h[i + 2].id = h[i].id
                            /\ h[i + 3] = Ev("OnMessage", "", "tool_result", TRUE)
       /\ \A i \in 1..n :
             (h[i].ev = "OnToolResult" \/ h[i].name = "tool_call")
                => i >= 2 /\ h[IF h[i].ev = "OnToolResult" THEN i - 2 ELSE i - 1].ev
                                = "OnToolCall"
       /\ \A i \in 1..n :
             h[i].name = "tool_result" => i >= 2 /\ h[i - 1].ev = "OnToolResult"
       /\ \A i \in 1..n :
             h[i] = Ev("OnMessage", "", "assistant", TRUE)
                => \A j \in (i + 1)..n : h[j].ev = "Done"
       /\ \A i \in 1..n : h[i].ev = "Done" => i = n

\* a turn with two tool calls and a final text is over
C7_Witness ==
    /\ runPc = "select"
    /\ NumEv(trace, "OnToolCall") = 2
    /\ Ev("OnMessage", "", "assistant", TRUE) \in {trace[i] : i \in 1..Len(trace)}
    /\ Last(trace).ev = "Done"

\* number of fn calls begun by the run of ExecuteWithRetry
RxOpCalls == Len(rx.opLog) + (IF rx.pc = "inop" THEN 1 ELSE 0)

\* fn failed with an error that the run treats as retryable
RxRetried(e) == e # NoErr /\ ~RxNotRetryable(rx.hasPred, e)

\* C8: a run of ExecuteWithRetry with MaxRetries = N calls fn at most N + 1
\* times; a run that has returned, in which every call failed with a
\* retryable error and the context was not cancelled, has called fn exactly
\* N + 1 times and onRetry exactly N times, with retry numbers 1..N in order.
C8_AttemptBound ==
    /\ rx.pc # "off" => RxOpCalls <= rx.max + 1
    /\ (/\ rx.pc = "ret"
        /\ rx.firedAt \in {"", "ret"}
        /\ \A i \in 1..Len(rx.opLog) : RxRetried(rx.opLog[i]))
          => /\ Len(rx.opLog) = rx.max + 1
             /\ rx.waits = rx.max
             /\ rx.hasCb => rx.retryLog = [i \in 1..rx.max |-> i]

\* a run with MaxRetries = 2 returned after three retryable failures
C8_Witness ==
    /\ rx.pc = "ret"
    /\ rx.max = 2
    /\ rx.firedAt = ""
    /\ rx.opLog = <<ApiErr(503), NetworkErr, ApiErr(503)>>
    /\ rx.retryLog = <<1, 2>>
    /\ rx.result = RxMaxRetries(2, ApiErr(503))

\* the turn's first request failed with an error that is not retryable
TurnFirstRequestFatal ==
    /\ Len(trace) >= 2
    /\ trace[1].ev = "LLMCall"
    /\ trace[2].ev = "Attempt"
    /\ trace[2].name \in {ErrTag(e) : e \in {x \in LLMErrors : ~IsRetryableError(x)}}

\* C9: when fn returns an error that the predicate reports as not retryable,
\* ExecuteWithRetry returns that very error at once: fn is not called again
\* and neither onRetry nor a wait follows that failure.  In a turn whose LLM
\* request fails with such an error there is exactly one LLM call and one
\* request, exactly one OnError, and then Done.
C9_NonRetryableStops ==
    /\ (/\ rx.pc # "off"
        /\ rx.opLog # <<>>
        /\ Last(rx.opLog) # NoErr
        /\ rx.hasPred
        /\ ~IsRetryableError(Last(rx.opLog)))
          => /\ rx.pc = "ret"
             /\ rx.result = RxPlain(Last(rx.opLog))
             /\ rx.waits = Len(rx.opLog) - 1
             /\ Len(rx.retryLog) = Len(rx.opLog) - 1
    /\ TurnFirstRequestFatal
          => /\ NumEv(trace, "LLMCall") = 1
             /\ NumEv(trace, "Attempt") = 1
             /\ Len(trace) \in {3, 4}
             /\ trace[3] = Ev("OnError", trace[2].name, "LLM request failed", FALSE)
             /\ NumEv(trace, "OnError") = 1
             /\ runPc \in {"signal", "loop", "select", "returned"}
             /\ runPc # "signal" => Len(trace) = 4 /\ trace[4].ev = "Done"

\* the turn's only request failed with 401 and the turn is over;
\* ExecuteWithRetry returned the 401 after one call of fn
C9_Witness ==
    /\ TurnFirstRequestFatal
    /\ runPc = "select"
    /\ Last(trace).ev = "Done"
    /\ rx.pc = "ret"
    /\ rx.opLog = <<ApiErr(401)>>
    /\ rx.result = RxPlain(ApiErr(401))

\* C10: once ctx is cancelled ExecuteWithRetry begins no further call of fn;
\* if ctx is cancelled before an attempt begins or during the wait, the run
\* returns the cancellation error, not success and not "max retries
\* exceeded".
C10_NoCallAfterCancel ==
    /\ rx.pc # "off" => rx.lateCalls = 0
    /\ (rx.pc = "ret" /\ rx.firedAt \in {"head", "wait"})
          => rx.result = RxCancelledErr

\* ctx was cancelled during the wait after a failed call, and the run
\* returned the cancellation error
C10_Witness ==
    /\ rx.pc = "ret"
    /\ rx.firedAt = "wait"
    /\ Len(rx.opLog) = 1
    /\ rx.result = RxCancelledErr

\* the run of ExecuteWithRetry has returned, every call of fn failed with an
\* error the run treats as retryable, and ctx was not cancelled before
RxExhausted ==
    /\ rx.pc = "ret"
    /\ rx.firedAt \in {"", "ret"}
    /\ \A i \in 1..Len(rx.opLog) : RxRetried(rx.opLog[i])

\* C11: when all MaxRetries + 1 calls fail with retryable errors and ctx is
\* not cancelled, ExecuteWithRetry returns "max retries (MaxRetries)
\* exceeded" wrapping the error of the last call, and it has waited only
\* between calls, not after the last one.
C11_MaxRetriesWrapsLast ==
    RxExhausted
       => /\ rx.opLog # <<>>
          /\ rx.result = RxMaxRetries(rx.max, Last(rx.opLog))
          /\ rx.waits = Len(rx.opLog) - 1

\* three calls failed, the last with another error than the first two
C11_Witness ==
    /\ RxExhausted
    /\ rx.max = 2
    /\ rx.opLog = <<ApiErr(503), ApiErr(503), NetworkErr>>
    /\ rx.result = RxMaxRetries(2, NetworkErr)
    /\ rx.waits = 2

(***************************************************************************)
(* The Soul with the callers of Run, Cancel and SendMessage observed.      *)
(*                                                                         *)
(* life.sentLog    the messages of the SendMessage calls that returned nil *)
(* life.recvLog    the messages the loop of Run received, in order         *)
(* life.lastSend   what the last SendMessage call returned                 *)
(* life.entered    number of Run calls that entered the loop               *)
(* life.exited     number of Run calls that returned from the loop         *)
(* life.rejected   number of Run calls that returned "already running"     *)
(* life.cancelAt   runPc at the last Cancel call made by another goroutine *)
(*                 since the loop was entered, "" if there was none        *)
(***************************************************************************)
\* number of Cancel calls made by other goroutines
MaxLifeCancels == 2
\* number of Run calls
MaxRunCalls == 2

LifeInit(q) ==
    [on |-> TRUE, sentLog |-> q, recvLog |-> <<>>, lastSend |-> "",
     entered |-> 0, exited |-> 0, rejected |-> 0, cancelAt |-> ""]

\* a goroutine calls SendMessage
LifeSend(t) ==
    /\ SendMessageStep(t)
    /\ life' = IF InboxHasRoom(msgCh)
               THEN [life EXCEPT !.lastSend = "ok", !.sentLog = Append(@, t)]
               ELSE [life EXCEPT !.lastSend = "full"]
    /\ UNCHANGED <<rx, mgr, calc>>

\* a goroutine calls Cancel
LifeCancel ==
    /\ cancelCh < MaxLifeCancels
    /\ CancelStep
    /\ life' = [life EXCEPT !.cancelAt = runPc]
    /\ UNCHANGED <<rx, mgr, calc>>

AlreadyRunning_never(r) == FALSE

\* Run: if s.running, under s.mu
AlreadyRunning(r) == r

\* a goroutine calls Run while no other call is between the return from the
\* loop and the deferred reset of running
LifeRunCall ==
    /\ life.entered + life.rejected < MaxRunCalls
    /\ runPc \in {"idle", "returned"} \/ running
    /\ IF AlreadyRunning(running)
       THEN /\ life' = [life EXCEPT !.rejected = @ + 1]
            /\ UNCHANGED soulVars
       ELSE /\ RunEnter
            /\ life' = [life EXCEPT !.entered = @ + 1, !.cancelAt = ""]
    /\ UNCHANGED <<rx, mgr, calc>>

\* the loop returns ctx.Err()
LifeRunCtxDone ==
    /\ RunCtxDoneStep
    /\ life' = [life EXCEPT !.exited = @ + 1]
    /\ UNCHANGED <<rx, mgr, calc>>

\* the loop returns "soul cancelled"
LifeRunCancelled ==
    /\ RunCancelledStep
    /\ life' = [life EXCEPT !.exited = @ + 1]
    /\ UNCHANGED <<rx, mgr, calc>>

\* the loop receives a message
LifeRecv ==
    /\ RunRecvStep
    /\ life' = [life EXCEPT !.recvLog = Append(@, Head(msgCh))]
    /\ UNCHANGED <<rx, mgr, calc>>

\* a Soul whose runtime has no LLM client: a user_input message is answered
\* by the fallback of processWithLLM
InitLife ==
    /\ SoulInit
    /\ ~hasClient
    /\ rx = RxIdle /\ mgr = MgrOff /\ calc = CalcOff
    /\ life = LifeInit(<<>>)

NextLife ==
    \/ \E t \in MsgTypes : LifeSend(t)
    \/ LifeCancel
    \/ CtxCancel
    \/ ConsumeDone
    \/ LifeRunCall
    \/ RunSelect
    \/ LifeRunCtxDone
    \/ LifeRunCancelled
    \/ LifeRecv
    \/ RunSignalDone

SpecLife == InitLife /\ [][NextLife]_vars

\* C12 (as stated): a Cancel called while the Soul is running (Run has set
\* the running flag and is about to wait, is waiting in its select, or is
\* processing a message) is observed by the loop: when the loop next waits
\* in its select, the cancel channel it waits on has been fired, so that
\* Run returns "soul cancelled" and resets running.
C12_CancelObserved ==
    (/\ life.on
     /\ life.cancelAt \in {"loop", "select", "signal"}
     /\ runPc = "select")
       => waitCh \in closedChs

(***************************************************************************)
(* SendMessage on a Soul whose inbox already buffers any number of         *)
(* messages up to its capacity (sent before, not yet received).            *)
(***************************************************************************)
InitInbox ==
    /\ \E n \in 0..InboxCap : msgCh = [i \in 1..n |-> "status"]
    /\ DoneCh = 0
    /\ running = FALSE
    /\ cancelCh = 0
    /\ closedChs = {}
    /\ waitCh = 0
    /\ llmHistory = <<>>
    /\ runPc = "idle"
    /\ step = 0
    /\ pending = <<>>
    /\ attempt = 0
    /\ hasClient = FALSE
    /\ ctxDone = FALSE
    /\ trace = <<>>
    /\ sent = 0
    /\ reqs = 0
    /\ rx = RxIdle /\ mgr = MgrOff /\ calc = CalcOff
    /\ life = LifeInit(msgCh)

NextInbox == \E t \in MsgTypes : LifeSend(t)

SpecInbox == InitInbox /\ [][NextInbox]_vars

\* C13: SendMessage returns at once: with fewer than InboxCap (100) messages
\* buffered it appends the message to the inbox and returns nil; with
\* InboxCap messages buffered it returns "message channel is full" and
\* leaves the inbox as it was.  The inbox never holds more than InboxCap.
C13_SendNeverBlocks ==
    /\ [](Len(msgCh) <= InboxCap)
    /\ [][life' # life
             => IF Len(msgCh) < InboxCap
                THEN /\ life'.lastSend = "ok"
                     /\ Len(life'.sentLog) = Len(life.sentLog) + 1
                     /\ msgCh' = Append(msgCh, Last(life'.sentLog))
                ELSE /\ life'.lastSend = "full"
                     /\ life'.sentLog = life.sentLog
                     /\ msgCh' = msgCh]_vars

\* the 100th message was accepted and the next send was refused
C13_Witness ==
    /\ life.on
    /\ life.lastSend = "full"
    /\ Len(msgCh) = InboxCap
    /\ sent = 1
    /\ Last(msgCh) # "status"

(***************************************************************************)
(* The Soul with an LLM client or without, its senders and its loop        *)
(* observed; Cancel is not called.                                         *)
(***************************************************************************)
InitFifo ==
    /\ SoulInit
    /\ rx = RxIdle /\ mgr = MgrOff /\ calc = CalcOff
    /\ life = LifeInit(<<>>)

NextFifo ==
    \/ \E t \in MsgTypes : LifeSend(t)
    \/ CtxCancel
    \/ ConsumeDone
    \/ LifeRunCall
    \/ RunSelect
    \/ LifeRunCtxDone
    \/ LifeRecv
    \/ RunSignalDone
    \/ SoulChat
    \/ ClientAttempt
    \/ ClientReply
    \/ ClientBackoffElapsed
    \/ ClientBackoffCancelled
    \/ SoulToolBegin
    \/ SoulToolCall

SpecFifo == InitFifo /\ [][NextFifo]_vars

\* C14: the loop receives the messages in the order in which their
\* SendMessage calls succeeded, one at a time: a message is received only
\* when the loop is back in its select, after the processing of the message
\* received before has ended and its send on DoneCh was made (the item
\* written or dropped).
C14_FifoOneAtATime ==
    /\ [](life.recvLog \o msgCh = life.sentLog)
    /\ [](InTurn \/ runPc = "signal" => life.recvLog # <<>>)
    /\ [][life.recvLog' # life.recvLog
             => /\ runPc = "select"
                /\ msgCh # <<>>
                /\ life.recvLog' = Append(life.recvLog, Head(msgCh))
                /\ msgCh' = Tail(msgCh)
                /\ life.recvLog # <<>>
                      => trace # <<>> /\ Last(trace).ev = "Done"]_vars

\* two different messages were sent before the first was received; the turn
\* of the first has ended with tool calls made, the second is being handled
C14_Witness ==
    /\ life.sentLog = <<"user_input", "status">>
    /\ life.recvLog = life.sentLog
    /\ runPc = "signal"
    /\ Len(llmHistory) >= 3
    /\ DoneCh = 1

\* C15: a Run call made while the loop is running returns "soul is already
\* running" and changes nothing of the Soul, the running flag included; of
\* the Run calls made on a Soul that is not running, in any interleaving,
\* only one is in the loop at a time: a call enters only when running is
\* false, and sets it.
C15_SingleLoop ==
    /\ [](life.entered - life.exited = IF running THEN 1 ELSE 0)
    /\ [][life.rejected' # life.rejected
             => running /\ UNCHANGED soulVars]_vars
    /\ [][life.entered' # life.entered => ~running /\ running']_vars

\* a Run call was refused while the loop of the first was processing a
\* message
C15_Witness ==
    /\ life.on
    /\ life.entered = 1
    /\ life.rejected = 1
    /\ running
    /\ runPc = "signal"

\* C16: Cancel can be called any number of times in any state: the channel
\* it installs is always one that has not been closed, so no Cancel closes a
\* closed channel.  When Run has returned, running is false; a Run call made
\* then enters the loop, and the channel its select then waits on has not
\* been closed; a loop returns only when ctx is cancelled or Cancel was
\* called after the loop was entered.
C16_CancelRearms ==
    /\ [](cancelCh \notin closedChs)
    /\ [](runPc = "returned" => ~running)
    /\ [][(runPc = "returned"
              /\ life.entered' + life.rejected' # life.entered + life.rejected)
             => /\ life.rejected' = life.rejected
                /\ life.entered' = life.entered + 1
                /\ running'
                /\ runPc' = "loop"]_vars
    /\ [][(runPc = "loop" /\ runPc' # "loop")
             => /\ runPc' = "select"
                /\ waitCh' \notin closedChs']_vars
    /\ [][(runPc = "select" /\ runPc' = "returned")
             => ctxDone \/ life.cancelAt # ""]_vars

\* a first loop was ended by Cancel; a second loop is waiting in its select
\* on a channel that has not been closed
C16_Witness ==
    /\ life.on
    /\ life.entered = 2
    /\ life.exited = 1
    /\ ~ctxDone
    /\ closedChs # {}
    /\ running
    /\ runPc = "select"
    /\ waitCh \notin closedChs

(***************************************************************************)
(* The approval manager under any sequence of calls of its methods.        *)
(*                                                                         *)
(* mgr.yolo   the argument NewManager was called with                      *)
(* mgr.m      the Manager: level, sessionApproved (the names mapped to     *)
(*            true), dangerousTools (the names mapped to true)             *)
(* mgr.log    the calls made, in order                                     *)
(***************************************************************************)
\* number of calls made on the Manager
MaxMgrOps == 3

Levels == {"per-request", "session", "yolo"}

ToolNames == {"shell", "file", "other"}

\* Manager.SetLevel
SetLevel(m, level) == [m EXCEPT !.level = level]

\* Manager.ApproveOnce
ApproveOnce(m, toolName) == m

\* Manager.ApproveForSession
ApproveForSession(m, toolName) ==
    [m EXCEPT !.sessionApproved = @ \cup {toolName}]

RevokeSessionApproval_keep(m, toolName) == m

\* Manager.RevokeSessionApproval
RevokeSessionApproval(m, toolName) ==
    [m EXCEPT !.sessionApproved = @ \ {toolName}]

\* Manager.ClearSessionApprovals
ClearSessionApprovals(m) == [m EXCEPT !.sessionApproved = {}]

\* Manager.IsDangerous
IsDangerous(m, toolName) == toolName \in m.dangerousTools

\* Manager.SetDangerous
SetDangerous(m, toolName, dangerous) ==
    [m EXCEPT !.dangerousTools = IF dangerous THEN @ \cup {toolName}
                                 ELSE @ \ {toolName}]

MgrCall(op, name, arg) == [op |-> op, name |-> name, arg |-> arg]

MgrInit(yolo) ==
    [on |-> TRUE, yolo |-> yolo, m |-> NewManager(yolo), log |-> <<>>]

MgrDo(m2, call) ==
    /\ mgr.on
    /\ Len(mgr.log) < MaxMgrOps
    /\ mgr' = [mgr EXCEPT !.m = m2, !.log = Append(@, call)]
    /\ UNCHANGED <<soulVars, rx, life, calc>>

MgrSetLevel ==
    \E l \in Levels : MgrDo(SetLevel(mgr.m, l), MgrCall("set_level", "", l))

MgrApproveOnce ==
    \E n \in ToolNames :
       MgrDo(ApproveOnce(mgr.m, n), MgrCall("approve_once", n, ""))

MgrApproveForSession ==
    \E n \in ToolNames :
       MgrDo(ApproveForSession(mgr.m, n), MgrCall("approve_for_session", n, ""))

MgrRevoke ==
    \E n \in ToolNames :
       MgrDo(RevokeSessionApproval(mgr.m, n), MgrCall("revoke_session", n, ""))

MgrClear ==
    MgrDo(ClearSessionApprovals(mgr.m), MgrCall("clear_session", "", ""))

MgrSetDangerous ==
    \E n \in ToolNames, b \in BOOLEAN :
       MgrDo(SetDangerous(mgr.m, n, b),
             MgrCall("set_dangerous", n, IF b THEN "true" ELSE "false"))

InitMgr ==
    /\ SoulIdle
    /\ rx = RxIdle /\ life = LifeOff /\ calc = CalcOff
    /\ \E yolo \in BOOLEAN : mgr = MgrInit(yolo)

NextMgr ==
    \/ MgrSetLevel
    \/ MgrApproveOnce
    \/ MgrApproveForSession
    \/ MgrRevoke
    \/ MgrClear
    \/ MgrSetDangerous

SpecMgr == InitMgr /\ [][NextMgr]_vars

\* the level after the calls of log, lv0 being the level at construction
RECURSIVE LevelAfter(_, _)
LevelAfter(lv0, log) ==
    IF log = <<>> THEN lv0
    ELSE IF Last(log).op = "set_level" THEN Last(log).arg
    ELSE LevelAfter(lv0, SubSeq(log, 1, Len(log) - 1))

\* name was approved for the session by a call of log and neither revoked
\* nor cleared by a later one
RECURSIVE StillApproved(_, _)
StillApproved(log, name) ==
    IF log = <<>> THEN FALSE
    ELSE LET c == Last(log) IN
         IF c.op = "approve_for_session" /\ c.name = name THEN TRUE
         ELSE IF c.op = "clear_session" THEN FALSE
         ELSE IF c.op = "revoke_session" /\ c.name = name THEN FALSE
         ELSE StillApproved(SubSeq(log, 1, Len(log) - 1), name)

\* C17: after any sequence of SetLevel, ApproveForSession,
\* RevokeSessionApproval, ClearSessionApprovals and SetDangerous calls (and
\* ApproveOnce calls), IsApproved(name) is true exactly when the level is
\* yolo (auto-approve-all), or the level is session and name was approved
\* for the session and not revoked or cleared since; under per-request it is
\* false for every name.
C17_IsApprovedMeaning ==
    mgr.on =>
       \A n \in ToolNames :
          LET lv == LevelAfter(NewManager(mgr.yolo).level, mgr.log)
          IN /\ IsApproved(mgr.m, n)
                   = (lv = "yolo" \/ (lv = "session" /\ StillApproved(mgr.log, n)))
             /\ lv = "per-request" => ~IsApproved(mgr.m, n)

\* under session level a name was approved and revoked, another is approved
C17_Witness ==
    /\ mgr.on
    /\ mgr.m.level = "session"
    /\ Len(mgr.log) = 3
    /\ mgr.log[3].op = "revoke_session"
    /\ \E c \in {mgr.log[i] : i \in 1..2} : c.op = "approve_for_session"
                                             /\ c.name = mgr.log[3].name
    /\ ~IsApproved(mgr.m, mgr.log[3].name)

(***************************************************************************)
(* APIError.IsRetryable and IsRetryableError applied to an *APIError of    *)
(* any status code.                                                        *)
(*                                                                         *)
(* calc.fn      the function applied                                       *)
(* calc.pc      "in" before the call, "out" after it                       *)
(***************************************************************************)
\* largest status code drawn
MaxStatus == 599

StatusCodes == -1..MaxStatus

InitClassify ==
    /\ SoulIdle
    /\ rx = RxIdle /\ life = LifeOff /\ mgr = MgrOff
    /\ \E s \in StatusCodes :
          calc = [fn |-> "IsRetryable", pc |-> "in", err |-> ApiErr(s)]

\* e.IsRetryable() and IsRetryableError(e) for e = &APIError{StatusCode: s}
ClassifyCall ==
    /\ calc.fn = "IsRetryable"
    /\ calc.pc = "in"
    /\ calc' = [fn |-> "IsRetryable", pc |-> "out", err |-> calc.err,
                method |-> APIError_IsRetryable(calc.err),
                viaError |-> IsRetryableError(calc.err)]
    /\ UNCHANGED <<soulVars, rx, life, mgr>>

NextClassify == ClassifyCall

SpecClassify == InitClassify /\ [][NextClassify]_vars

\* C18: for an API error of status s, IsRetryable (and IsRetryableError on
\* the same error) is true exactly for s in 429, 500, 502, 503, 504 and
\* false for every other s, 0, the 2xx codes and the other 4xx codes
\* included.
C18_RetryableStatuses ==
    (calc.fn = "IsRetryable" /\ calc.pc = "out") =>
       /\ calc.method = (calc.err.status \in {429, 500, 502, 503, 504})
       /\ calc.viaError = calc.method
       /\ calc.err.status \in {0} \cup 200..299 \cup ((400..499) \ {429})
             => ~calc.method

\* a 5xx code outside the list was classified as not retryable
C18_Witness ==
    /\ calc.fn = "IsRetryable" /\ calc.pc = "out"
    /\ calc.err.status = 501
    /\ ~calc.method

(***************************************************************************)
(* ExponentialBackoff as a function of its arguments.                      *)
(*                                                                         *)
(* time.Duration is a signed integer of DurationBits bits (int64 in the    *)
(* source, narrowed here so that every overflow of the source is met with  *)
(* small numbers).  A float64 is a fraction n / d whose value has a        *)
(* significand of MantissaBits bits (53 in the source, narrowed with the   *)
(* integers so that the largest duration is not representable, as          *)
(* MaxInt64 is not in float64); every conversion and every operation       *)
(* rounds to the nearest such value, ties to even.  The exponential base   *)
(* is a fraction too.                                                      *)
(*                                                                         *)
(* calc.pc    "in" before the call, "out" after it returned, "panic" when  *)
(*            it panicked                                                  *)
(* calc.draw  the value rand.Int63n returned (-1 when it was not called)   *)
(* calc.wait  the duration returned                                        *)
(***************************************************************************)
\* width of time.Duration
DurationBits == 8

\* largest attempt number drawn
MaxAttempt == 4

RECURSIVE Pow(_, _)
Pow(b, n) == IF n = 0 THEN 1 ELSE b * Pow(b, n - 1)

MaxDuration == Pow(2, DurationBits - 1) - 1

MinDuration == -Pow(2, DurationBits - 1)

\* integer arithmetic on time.Duration wraps around
WrapDuration(x) ==
    ((x - MinDuration) % Pow(2, DurationBits)) + MinDuration

\* width of the significand of a float64
MantissaBits == 5

\* least k >= 0 with a < d * 2^k * 2^MantissaBits
RECURSIVE ExpDown(_, _, _)
ExpDown(a, d, k) ==
    IF a < d * Pow(2, k) * Pow(2, MantissaBits) THEN k ELSE ExpDown(a, d, k + 1)

\* least k >= 0 with a * 2^k >= d * 2^(MantissaBits - 1)
RECURSIVE ExpUp(_, _, _)
ExpUp(a, d, k) ==
    IF a * Pow(2, k) >= d * Pow(2, MantissaBits - 1) THEN k
    ELSE ExpUp(a, d, k + 1)

\* N / D rounded to the nearest integer, ties to the even one
RoundHalfEven(N, D) ==
    LET fl == N \div D
        rem == N % D
    IN IF 2 * rem > D \/ (2 * rem = D /\ fl % 2 = 1) THEN fl + 1 ELSE fl

\* the float64 nearest to the fraction f
RoundFloat(f) ==
    IF f.n = 0 THEN [n |-> 0, d |-> 1]
    ELSE LET sign == IF f.n < 0 THEN -1 ELSE 1
             a == sign * f.n
             down == ExpDown(a, f.d, 0)
             up == IF down = 0 THEN ExpUp(a, f.d, 0) ELSE 0
         IN [n |-> sign * RoundHalfEven(a * Pow(2, up), f.d * Pow(2, down))
                     * Pow(2, down),
             d |-> Pow(2, up)]

\* float64(i) of an integer i
FloatOf(i) == RoundFloat([n |-> i, d |-> 1])

\* the product of two float64
FloatMul(f, g) == RoundFloat([n |-> f.n * g.n, d |-> f.d * g.d])

\* the loop of math.Pow for an integer exponent i: ans *= x**yi by
\* repeated squaring, every product rounded
RECURSIVE PowLoop(_, _, _)
PowLoop(a1, x1, i) ==
    IF i = 0 THEN a1
    ELSE PowLoop(IF i % 2 = 1 THEN FloatMul(a1, x1) ELSE a1,
                 FloatMul(x1, x1), i \div 2)

\* math.Pow(base, float64(attempt))
FloatPow(base, att) ==
    PowLoop(FloatOf(1), RoundFloat([n |-> base.num, d |-> base.den]), att)

\* float64(initialWait) * math.Pow(base, float64(attempt))
BackoffFloat(att, initialWait, base) ==
    FloatMul(FloatOf(initialWait), FloatPow(base, att))

\* backoff += float64(jitterValue)
FloatAdd(f, i) ==
    LET g == FloatOf(i)
    IN RoundFloat([n |-> f.n * g.d + g.n * f.d, d |-> f.d * g.d])

\* the integer part of a float64 (rounding toward zero)
FloatTrunc(f) == IF f.n >= 0 THEN f.n \div f.d ELSE -((-f.n) \div f.d)

\* time.Duration(backoff): the integer part when the type can represent it;
\* otherwise the result depends on the implementation (the most negative
\* value on amd64, the nearest representable value on arm64)
FloatToDuration(f) ==
    LET t == FloatTrunc(f)
    IN IF t > MaxDuration THEN {MinDuration, MaxDuration}
       ELSE IF t < MinDuration THEN {MinDuration}
       ELSE {t}

\* int64(2*jitter), the argument of rand.Int63n
JitterRange(jitter) == WrapDuration(2 * jitter)

\* rand.Int63n(n) panics unless n > 0
Int63nPanics(n) == n <= 0

\* rand.Int63n(n) returns a value of [0, n)
Int63n(n) == 0..(n - 1)

\* if wait > maxWait { wait = maxWait }; if wait < 0 { wait = 0 }
ClampWait(wait, maxWait) ==
    LET w == IF wait > maxWait THEN maxWait ELSE wait
    IN IF w < 0 THEN 0 ELSE w

Attempts == 0..MaxAttempt

InitialWaits == {1, 3, MaxDuration}

MaxWaits == {1, 10, MaxDuration}

ExponentialBases ==
    {[num |-> 3, den |-> 2], [num |-> 2, den |-> 1], [num |-> 3, den |-> 1]}

Jitters == {0, 1, 5, Pow(2, DurationBits - 2) - 1, Pow(2, DurationBits - 2),
            MaxDuration}

InitBackoff ==
    /\ SoulIdle
    /\ rx = RxIdle /\ life = LifeOff /\ mgr = MgrOff
    /\ \E a \in Attempts, i \in InitialWaits, m \in MaxWaits,
          b \in ExponentialBases, j \in Jitters :
          calc = [fn |-> "ExponentialBackoff", pc |-> "in", attempt |-> a,
                  initialWait |-> i, maxWait |-> m, base |-> b, jitter |-> j,
                  draw |-> -1, wait |-> 0]

\* ExponentialBackoff runs to its return statement
BackoffReturn ==
    /\ calc.fn = "ExponentialBackoff"
    /\ calc.pc = "in"
    /\ LET backoff == BackoffFloat(calc.attempt, calc.initialWait, calc.base)
       IN \/ /\ calc.jitter > 0
             /\ ~Int63nPanics(JitterRange(calc.jitter))
             /\ \E r \in Int63n(JitterRange(calc.jitter)) :
                   LET jitterValue == WrapDuration(r - calc.jitter)
                   IN \E wait \in FloatToDuration(FloatAdd(backoff, jitterValue)) :
                         calc' = [calc EXCEPT !.pc = "out", !.draw = r,
                                    !.wait = ClampWait(wait, calc.maxWait)]
          \/ /\ ~(calc.jitter > 0)
             /\ \E wait \in FloatToDuration(backoff) :
                   calc' = [calc EXCEPT !.pc = "out",
                              !.wait = ClampWait(wait, calc.maxWait)]
    /\ UNCHANGED <<soulVars, rx, life, mgr>>

\* ExponentialBackoff panics in rand.Int63n
BackoffPanic ==
    /\ calc.fn = "ExponentialBackoff"
    /\ calc.pc = "in"
    /\ calc.jitter > 0
    /\ Int63nPanics(JitterRange(calc.jitter))
    /\ calc' = [calc EXCEPT !.pc = "panic"]
    /\ UNCHANGED <<soulVars, rx, life, mgr>>

NextBackoff == BackoffReturn \/ BackoffPanic

SpecBackoff == InitBackoff /\ [][NextBackoff]_vars

\* initial * base^attempt as a duration, in exact arithmetic
ExactBackoff ==
    FloatTrunc([n |-> calc.initialWait * Pow(calc.base.num, calc.attempt),
                d |-> Pow(calc.base.den, calc.attempt)])

\* C19: with jitter = 0, ExponentialBackoff returns
\* min(initial * base^attempt, max) for every attempt >= 0; when
\* initial * base^attempt exceeds the range of a duration this is max.
C19_JitterFreeBackoff ==
    (calc.fn = "ExponentialBackoff" /\ calc.pc = "out" /\ calc.jitter = 0) =>
       calc.wait = (IF ExactBackoff < calc.maxWait THEN ExactBackoff
                    ELSE calc.maxWait)

\* C20: for every attempt >= 0, every configuration with initial > 0,
\* max > 0, base > 1 and jitter >= 0, and every jitter draw,
\* ExponentialBackoff returns a duration d with 0 <= d <= max.
C20_BackoffInRange ==
    (/\ calc.fn = "ExponentialBackoff"
     /\ calc.pc # "in"
     /\ calc.attempt >= 0 /\ calc.initialWait > 0 /\ calc.maxWait > 0
     /\ calc.base.num > calc.base.den /\ calc.jitter >= 0) =>
       /\ calc.pc = "out"
       /\ 0 <= calc.wait /\ calc.wait <= calc.maxWait

(***************************************************************************)
(* truncateText as a function of its arguments.  A string is the sequence  *)
(* of its bytes.                                                           *)
(*                                                                         *)
(* calc.text, calc.maxTotal, calc.maxLine   the arguments                  *)
(* calc.out                                 the string returned            *)
(***************************************************************************)
\* longest text drawn
MaxTextLen == 5

\* largest total limit drawn
MaxTotalArg == 4

\* largest line limit drawn
MaxLineArg == 3

NL == "\n"

TextBytes == {"a", "b", NL}

\* "\n... (output truncated)"
TruncatedSuffix ==
    <<NL, ".", ".", ".", " ", "(", "o", "u", "t", "p", "u", "t", " ",
      "t", "r", "u", "n", "c", "a", "t", "e", "d", ")">>

\* s[from:to] of the source: the bytes at 0-based positions from..to-1
Slice(s, from, to) == SubSeq(s, from + 1, to)

\* the for loop of truncateText from position i on; st holds its local
\* variables result, totalLen, lineStart and truncated
RECURSIVE truncateLoop(_, _, _, _, _)
truncateLoop(text, maxTotal, maxLine, i, st) ==
    IF i > Len(text) THEN st
    ELSE IF ~(i = Len(text) \/ text[i + 1] = NL)
    THEN truncateLoop(text, maxTotal, maxLine, i + 1, st)
    ELSE
      LET line == Slice(text, st.lineStart, i)
          lineEnd == IF i < Len(text) THEN i + 1 ELSE i
          long == Len(line) > maxLine
          lineLen == IF long THEN maxLine ELSE Len(line)
          trunc1 == st.truncated \/ long
      IN IF st.totalLen + lineLen > maxTotal
         THEN LET remaining == maxTotal - st.totalLen
              IN [result |-> IF remaining > 0
                             THEN st.result \o Slice(line, 0, remaining)
                             ELSE st.result,
                  totalLen |-> IF remaining > 0 THEN st.totalLen + remaining
                               ELSE st.totalLen,
                  lineStart |-> st.lineStart,
                  truncated |-> TRUE]
         ELSE truncateLoop(text, maxTotal, maxLine, i + 1,
                [result |-> IF long
                            THEN st.result \o Slice(line, 0, maxLine)
                                   \o (IF i < Len(text) THEN <<NL>> ELSE <<>>)
                            ELSE st.result \o Slice(text, st.lineStart, lineEnd),
                 totalLen |-> st.totalLen + lineLen
                                + (IF i < Len(text) /\ ~long THEN 1 ELSE 0),
                 lineStart |-> i + 1,
                 truncated |-> trunc1])

\* truncateText
truncateText(text, maxTotal, maxLine) ==
    IF Len(text) <= maxTotal /\ maxLine <= 0 THEN text
    ELSE LET st == truncateLoop(text, maxTotal, maxLine, 0,
                      [result |-> <<>>, totalLen |-> 0, lineStart |-> 0,
                       truncated |-> FALSE])
         IN IF st.truncated THEN st.result \o TruncatedSuffix ELSE st.result

RECURSIVE Texts(_)
Texts(n) ==
    IF n = 0 THEN {<<>>}
    ELSE LET shorter == Texts(n - 1)
         IN shorter \cup {Append(t, c) : t \in {u \in shorter : Len(u) = n - 1},
                                          c \in TextBytes}

InitTruncate ==
    /\ SoulIdle
    /\ rx = RxIdle /\ life = LifeOff /\ mgr = MgrOff
    /\ \E t \in Texts(MaxTextLen), total \in 1..MaxTotalArg,
          ln \in 0..MaxLineArg :
          calc = [fn |-> "truncateText", pc |-> "in", text |-> t,
                  maxTotal |-> total, maxLine |-> ln, out |-> <<>>]

TruncateCall ==
    /\ calc.fn = "truncateText"
    /\ calc.pc = "in"
    /\ calc' = [calc EXCEPT !.pc = "out",
                  !.out = truncateText(calc.text, calc.maxTotal, calc.maxLine)]
    /\ UNCHANGED <<soulVars, rx, life, mgr>>

NextTruncate == TruncateCall

SpecTruncate == InitTruncate /\ [][NextTruncate]_vars

\* the lengths of the lines of t (the pieces between newlines)
RECURSIVE LineLengths(_, _)
LineLengths(t, cur) ==
    IF t = <<>> THEN {cur}
    ELSE IF Head(t) = NL THEN {cur} \cup LineLengths(Tail(t), 0)
    ELSE LineLengths(Tail(t), cur + 1)

FitsLimits(t, total, ln) ==
    Len(t) <= total /\ \A l \in LineLengths(t, 0) : l <= ln

\* C21: truncateText(t, total, line) returns t unchanged when t is at most
\* total long and every line of t at most line long; for every other input
\* the result is at most total + len("\n... (output truncated)") long.
C21_TruncateText ==
    (calc.fn = "truncateText" /\ calc.pc = "out") =>
       IF FitsLimits(calc.text, calc.maxTotal, calc.maxLine)
       THEN calc.out = calc.text
       ELSE Len(calc.out) <= calc.maxTotal + Len(TruncatedSuffix)

(***************************************************************************)
(* The text of a tool result on its way to the LLM history and to the      *)
(* OnToolResult handler: the part of processWithLLM that follows           *)
(* executeToolCall, for results whose text is a sequence of bytes.         *)
(*                                                                         *)
(* calc.result    the ToolResult returned by executeToolCall               *)
(* calc.msg       the role=tool message appended to llmHistory             *)
(* calc.event     the ToolResult handed to OnToolResult                    *)
(* calc.after     the ToolResult after the step                            *)
(***************************************************************************)
\* MaxToolOutputTotalChars (50000 in the source), narrowed so that texts of
\* a few bytes exceed it
MaxToolOutputTotalChars == 3

\* MaxToolOutputLineChars (2000 in the source), narrowed likewise
MaxToolOutputLineChars == 2

\* ToolResult.TruncateForLLM (of a non-nil result)
TruncateForLLM(tr) ==
    LET truncated == ToolResult(tr.call_id, tr.success, tr.result, tr.error)
        r1 == IF Len(truncated.result) > 0
              THEN [truncated EXCEPT !.result =
                       truncateText(@, MaxToolOutputTotalChars,
                                    MaxToolOutputLineChars)]
              ELSE truncated
    IN IF Len(r1.error) > MaxToolOutputTotalChars
       THEN [r1 EXCEPT !.error =
                truncateText(@, MaxToolOutputTotalChars, MaxToolOutputLineChars)]
       ELSE r1

TextCall == [id |-> "c1", name |-> "shell"]

InitToolText ==
    /\ SoulIdle
    /\ rx = RxIdle /\ life = LifeOff /\ mgr = MgrOff
    /\ \E r \in {ToolResult(TextCall.id, TRUE, t, "") : t \in Texts(MaxTextLen)}
              \cup {ToolResult(TextCall.id, FALSE, "", "E")} :
          calc = [fn |-> "toolText", pc |-> "in", result |-> r]

\* processWithLLM from the return of executeToolCall to the append of the
\* role=tool message
ToolTextStep ==
    /\ calc.fn = "toolText"
    /\ calc.pc = "in"
    /\ calc' = [fn |-> "toolText", pc |-> "out", result |-> calc.result,
                event |-> calc.result,
                msg |-> ToolResultMsg(TextCall, calc.result),
                after |-> calc.result]
    /\ UNCHANGED <<soulVars, rx, life, mgr>>

NextToolText == ToolTextStep

SpecToolText == InitToolText /\ [][NextToolText]_vars

\* C22: for a tool call, the role=tool message appended to the LLM history
\* carries the result (or error) text truncated by the output-truncation
\* rule, the OnToolResult handler receives the full ToolResult, and the
\* original ToolResult is not modified.
C22_LLMCopyTruncated ==
    (calc.fn = "toolText" /\ calc.pc = "out") =>
       /\ calc.msg.content = ResultText(TruncateForLLM(calc.result))
       /\ calc.event = calc.result
       /\ calc.after = calc.result

(***************************************************************************)
(* Compaction of the LLM history (shouldCompress, maybeCompressHistory).   *)
(*                                                                         *)
(* calc.llmHistory    the LLM history                                      *)
(* calc.tokenCount    the token counter                                    *)
(* calc.maxContext, calc.reserved   SetMaxContextSize, SetReservedContext  *)
(* calc.llmCalls      requests made to the summarizing client              *)
(* calc.last          how the last maybeCompressHistory call ended, with   *)
(*                    the history, counter and number of requests before   *)
(*                    it (prev, prevTokens, prevCalls), the value          *)
(*                    shouldCompress gave it (should) and the summarizer's *)
(*                    reply (reply)                                        *)
(***************************************************************************)
\* longest seeded history
MaxHistory == 6

\* largest token count, also the largest context size
MaxTokens == 4

\* summarizer requests made
MaxSummaries == 2

\* messages kept at the tail of a compacted history
N_KEEP == 2

\* a history of at most N_KEEP + N_MIN_COMPRESS_OVERHEAD messages is left alone
N_MIN_COMPRESS_OVERHEAD == 2

SummaryPrefix == "Conversation so far (summary): "

shouldCompress_strict(tokenCount, reserved, maxContext) ==
    tokenCount + reserved > maxContext

\* Soul.shouldCompress
shouldCompress(tokenCount, reserved, maxContext) ==
    tokenCount + reserved >= maxContext

\* maybeCompressHistory: the history is too short to be compacted
TooFewMessages(history) == Len(history) <= N_KEEP + N_MIN_COMPRESS_OVERHEAD

CompressedHistory_keepThree(history, summary) ==
    <<LLMMsg("system", SummaryPrefix \o summary, <<>>, "")>>
    \o SubSeq(history, Len(history) - N_KEEP, Len(history))

\* maybeCompressHistory: the history that replaces the old one
CompressedHistory(history, summary) ==
    <<LLMMsg("system", SummaryPrefix \o summary, <<>>, "")>>
    \o SubSeq(history, Len(history) - N_KEEP + 1, Len(history))

SeedContents == <<"msg1", "resp1", "msg2", "resp2", "msg3", "resp3", "msg4">>

\* the i-th message of a seeded conversation
SeedMsg(i) ==
    LLMMsg(IF i % 2 = 1 THEN "user" ELSE "assistant",
           SeedContents[((i - 1) % Len(SeedContents)) + 1], <<>>, "")

SummaryReplies == {"S", "Summary of conversation"}

InitCompress ==
    /\ SoulIdle
    /\ rx = RxIdle /\ life = LifeOff /\ mgr = MgrOff
    /\ \E n \in 0..MaxHistory, t \in 0..MaxTokens, r \in 0..1,
          m \in (MaxTokens - 1)..MaxTokens :
          calc = [fn |-> "compress", llmHistory |-> [i \in 1..n |-> SeedMsg(i)],
                  tokenCount |-> t, reserved |-> r, maxContext |-> m,
                  llmCalls |-> 0, last |-> "none", prev |-> <<>>,
                  prevTokens |-> 0, prevCalls |-> 0, should |-> FALSE,
                  reply |-> ""]

CompressEnter ==
    [calc EXCEPT !.prev = calc.llmHistory, !.prevTokens = calc.tokenCount,
                 !.prevCalls = calc.llmCalls,
                 !.should = shouldCompress(calc.tokenCount, calc.reserved,
                                           calc.maxContext),
                 !.reply = ""]

CompressNeeded ==
    /\ shouldCompress(calc.tokenCount, calc.reserved, calc.maxContext)
    /\ ~TooFewMessages(calc.llmHistory)

\* maybeCompressHistory returns without compacting
MaybeCompressSkip ==
    /\ calc.fn = "compress"
    /\ ~CompressNeeded
    /\ calc' = [CompressEnter EXCEPT !.last = "skipped"]
    /\ UNCHANGED <<soulVars, rx, life, mgr>>

\* maybeCompressHistory compacts: the summarizer replies with text and usage
MaybeCompressDone ==
    /\ calc.fn = "compress"
    /\ CompressNeeded
    /\ calc.llmCalls < MaxSummaries
    /\ \E summary \in SummaryReplies, usage \in 0..MaxTokens :
          calc' = [CompressEnter EXCEPT
                     !.last = "compressed",
                     !.reply = summary,
                     !.llmCalls = @ + 1,
                     !.llmHistory = CompressedHistory(@, summary),
                     !.tokenCount = usage]
    /\ UNCHANGED <<soulVars, rx, life, mgr>>

\* maybeCompressHistory fails: the summarizer returns an error
MaybeCompressFailed ==
    /\ calc.fn = "compress"
    /\ CompressNeeded
    /\ calc.llmCalls < MaxSummaries
    /\ calc' = [CompressEnter EXCEPT !.last = "failed", !.llmCalls = @ + 1]
    /\ UNCHANGED <<soulVars, rx, life, mgr>>

\* the conversation goes on: a message is appended to the history
CompressAppend ==
    /\ calc.fn = "compress"
    /\ Len(calc.llmHistory) < MaxHistory
    /\ calc' = [calc EXCEPT !.llmHistory = Append(@, SeedMsg(Len(@) + 1)),
                            !.last = "none"]
    /\ UNCHANGED <<soulVars, rx, life, mgr>>

\* updateTokenCount with the usage of a response
CompressUpdateTokens ==
    /\ calc.fn = "compress"
    /\ \E t \in 0..MaxTokens :
          /\ t # calc.tokenCount
          /\ calc' = [calc EXCEPT !.tokenCount = t, !.last = "none"]
    /\ UNCHANGED <<soulVars, rx, life, mgr>>

NextCompress ==
    \/ MaybeCompressSkip
    \/ MaybeCompressDone
    \/ MaybeCompressFailed
    \/ CompressAppend
    \/ CompressUpdateTokens

SpecCompress == InitCompress /\ [][NextCompress]_vars

\* C23: when shouldCompress holds and the history has L >= 5 entries, a
\* successful maybeCompressHistory leaves exactly 3 entries: a system
\* message "Conversation so far (summary): " followed by the summarizer's
\* reply, then the previous last two entries, unchanged and in order.
C23_CompressedShape ==
    /\ (calc.fn = "compress" /\ calc.last = "skipped") =>
          ~(calc.should /\ Len(calc.prev) >= 5)
    /\ (calc.fn = "compress" /\ calc.last = "compressed") =>
       /\ calc.should /\ Len(calc.prev) >= 5
       /\ Len(calc.llmHistory) = 3
       /\ calc.llmHistory[1].role = "system"
       /\ calc.llmHistory[1].content = SummaryPrefix \o calc.reply
       /\ calc.llmHistory[2] = calc.prev[Len(calc.prev) - 1]
       /\ calc.llmHistory[3] = calc.prev[Len(calc.prev)]

\* a history of six messages was compacted
C23_Witness ==
    /\ calc.fn = "compress" /\ calc.last = "compressed"
    /\ Len(calc.prev) = 6
    /\ calc.llmHistory[3].content = "resp3"

\* C24: maybeCompressHistory leaves the history and the token counter
\* unchanged and makes no LLM request when shouldCompress is false
\* (tokenCount + reserved < maxContext) or the history holds 4 or fewer
\* messages; shouldCompress is true exactly when
\* tokenCount + reserved >= maxContext.
C24_NoCompressionFrame ==
    (calc.fn = "compress" /\ calc.last # "none") =>
       /\ calc.should = (calc.prevTokens + calc.reserved >= calc.maxContext)
       /\ (calc.prevTokens + calc.reserved < calc.maxContext
             \/ Len(calc.prev) <= 4)
            => /\ calc.llmHistory = calc.prev
               /\ calc.tokenCount = calc.prevTokens
               /\ calc.llmCalls = calc.prevCalls

\* a call at the threshold with exactly four messages did nothing
C24_Witness ==
    /\ calc.fn = "compress" /\ calc.last = "skipped"
    /\ calc.should
    /\ calc.prevTokens + calc.reserved = calc.maxContext
    /\ Len(calc.prev) = 4

(***************************************************************************)
(* Context: the transcript of wire messages, its file and its checkpoints. *)
(*                                                                         *)
(* A wire message is [type, text, meta]: its type, the text of its content *)
(* part and its metadata.  A byte string is [kind, items]: nil, JSON data  *)
(* (items: the encoded messages), or the remains of a failed write; a file *)
(* that does not exist has kind "absent".                                  *)
(*                                                                         *)
(* calc.c       the Context: messages and modified                         *)
(* calc.file    the content of the file at filePath                        *)
(* calc.cp      the checkpoint held by the caller (context: its bytes;     *)
(*              taken: the messages present when it was taken)             *)
(* calc.last    the last call: op, ok (it returned no error), wrote (it    *)
(*              wrote the file), n (argument of GetLastNMessages), view    *)
(*              (the messages returned), before, dirty, unsaved (the       *)
(*              Context, calc.dirty and calc.unsaved before it), panic     *)
(*              (it panicked: no recover in the program, no later call)    *)
(* calc.dirty   the transcript was modified since the last Save or         *)
(*              Restore that returned no error                             *)
(* calc.unsaved the transcript was modified since the last Save that       *)
(*              returned no error or the last Restore that loaded the file *)
(* calc.nops    calls made                                                 *)
(***************************************************************************)
\* most messages in the transcript
MaxMsgs == 2

\* calls made on the Context
MaxCtxOps == 4

Bytes(kind, items) == [kind |-> kind, items |-> items]

NilBytes == Bytes("nil", <<>>)

PartialBytes == Bytes("partial", <<>>)

AbsentFile == Bytes("absent", <<>>)

\* a text that is not valid UTF-8, and what json.Marshal makes of it
InvalidUTF8 == "\\xff"

ReplacementChar == "\\ufffd"

PlainMsg == [type |-> "user_input", text |-> "hi", meta |-> "none"]

\* a message whose text holds a byte that is not valid UTF-8
RawTextMsg == [type |-> "tool_result", text |-> InvalidUTF8, meta |-> "none"]

\* a message whose metadata holds a value JSON cannot represent (NaN)
NaNMetaMsg == [type |-> "status", text |-> "", meta |-> "nan"]

WireMsgs == {PlainMsg, RawTextMsg, NaNMetaMsg}

\* json.Marshal of a string: invalid UTF-8 is replaced by U+FFFD
EncodeText(t) == IF t = InvalidUTF8 THEN ReplacementChar ELSE t

EncodeMsg(m) == [type |-> m.type, text |-> EncodeText(m.text), meta |-> m.meta]

DecodeMsg(j) == [type |-> j.type, text |-> j.text, meta |-> j.meta]

\* json.Marshal / json.MarshalIndent of []wire.Message
json_Marshal(msgs) ==
    IF \E i \in 1..Len(msgs) : msgs[i].meta = "nan"
    THEN [ok |-> FALSE, data |-> NilBytes]
    ELSE [ok |-> TRUE,
          data |-> Bytes("json", [i \in 1..Len(msgs) |-> EncodeMsg(msgs[i])])]

\* json.Unmarshal into []wire.Message
json_Unmarshal(data) ==
    IF data.kind # "json"
    THEN [ok |-> FALSE, messages |-> <<>>]
    ELSE [ok |-> TRUE,
          messages |-> [i \in 1..Len(data.items) |-> DecodeMsg(data.items[i])]]

\* NewContext
NewContext == [messages |-> <<>>, modified |-> FALSE]

\* Context.AddMessage
AddMessage(c, msg) ==
    [c EXCEPT !.messages = Append(@, msg), !.modified = TRUE]

\* Context.AddMessages
AddMessages(c, msgs) ==
    [c EXCEPT !.messages = @ \o msgs, !.modified = TRUE]

\* Context.GetMessages
GetMessages(c) == c.messages

GetLastNMessages_first(c, n) ==
    IF n >= Len(c.messages) THEN [panic |-> FALSE, result |-> c.messages]
    ELSE IF n < 0 THEN [panic |-> TRUE, result |-> <<>>]
    ELSE [panic |-> FALSE, result |-> SubSeq(c.messages, 1, n)]

\* Context.GetLastNMessages: what it returns, or the run-time panic of
\* make([]wire.Message, n) for a negative n (nothing is returned then)
GetLastNMessages(c, n) ==
    IF n >= Len(c.messages) THEN [panic |-> FALSE, result |-> c.messages]
    ELSE IF n < 0 THEN [panic |-> TRUE, result |-> <<>>]
    ELSE [panic |-> FALSE,
          result |-> SubSeq(c.messages, Len(c.messages) - n + 1,
                            Len(c.messages))]

\* Context.Clear
Clear(c) == [c EXCEPT !.messages = <<>>, !.modified = TRUE]

SaveClears_never(ok) == FALSE

\* Context.Save: c.modified = false is reached only after the write
SaveClears(ok) == ok

\* Context.Checkpoint: the error of json.Marshal is dropped
Checkpoint(c) == [context |-> json_Marshal(c.messages).data]

RestoreCheckpoint_keep(c, cp) == [c EXCEPT !.modified = TRUE]

\* Context.RestoreCheckpoint (when json.Unmarshal returns no error)
RestoreCheckpoint(c, cp) ==
    [c EXCEPT !.messages = json_Unmarshal(cp.context).messages,
              !.modified = TRUE]

NoCp == [context |-> NilBytes, taken |-> <<>>, held |-> FALSE]

NoCall == [op |-> "none", ok |-> TRUE, wrote |-> FALSE, n |-> 0,
           view |-> <<>>, before |-> NewContext, dirty |-> FALSE,
           unsaved |-> FALSE, panic |-> FALSE]

CtxCall(op, ok) ==
    [NoCall EXCEPT !.op = op, !.ok = ok, !.before = calc.c,
                   !.dirty = calc.dirty, !.unsaved = calc.unsaved]

InitContext ==
    /\ SoulIdle
    /\ rx = RxIdle /\ life = LifeOff /\ mgr = MgrOff
    /\ \E f \in {AbsentFile} \cup {json_Marshal(<<m>>).data : m \in {PlainMsg}} :
          calc = [fn |-> "context", c |-> NewContext, file |-> f, cp |-> NoCp,
                  last |-> NoCall, dirty |-> FALSE, unsaved |-> FALSE,
                  nops |-> 0]

CtxStep(next) ==
    /\ calc.fn = "context"
    /\ ~calc.last.panic
    /\ calc.nops < MaxCtxOps
    /\ calc' = [next EXCEPT !.nops = calc.nops + 1]
    /\ UNCHANGED <<soulVars, rx, life, mgr>>

CtxAddMessage ==
    \E m \in WireMsgs :
       /\ Len(calc.c.messages) < MaxMsgs
       /\ CtxStep([calc EXCEPT !.c = AddMessage(@, m),
                     !.last = CtxCall("AddMessage", TRUE),
                     !.dirty = TRUE, !.unsaved = TRUE])

CtxAddMessages ==
    \E m1 \in WireMsgs, m2 \in WireMsgs :
       /\ Len(calc.c.messages) + 2 <= MaxMsgs
       /\ CtxStep([calc EXCEPT !.c = AddMessages(@, <<m1, m2>>),
                     !.last = CtxCall("AddMessages", TRUE),
                     !.dirty = TRUE, !.unsaved = TRUE])

CtxClear ==
    CtxStep([calc EXCEPT !.c = Clear(@), !.last = CtxCall("Clear", TRUE),
               !.dirty = TRUE, !.unsaved = TRUE])

\* Context.Save; written: whether os.WriteFile returns no error
CtxSave ==
    \E written \in BOOLEAN, partial \in BOOLEAN :
       LET m == json_Marshal(calc.c.messages)
           attempt_ == calc.c.modified /\ m.ok
           ok == ~calc.c.modified \/ (m.ok /\ written)
       IN /\ (~attempt_ => (written /\ ~partial))
          /\ (written => ~partial)
          /\ CtxStep([calc EXCEPT
                !.c = IF calc.c.modified /\ SaveClears(ok)
                      THEN [@ EXCEPT !.modified = FALSE] ELSE @,
                !.file = IF attempt_ /\ written THEN m.data
                         ELSE IF attempt_ /\ partial THEN PartialBytes ELSE @,
                !.last = [CtxCall("Save", ok) EXCEPT
                            !.wrote = attempt_ /\ (written \/ partial)],
                !.dirty = IF ok THEN FALSE ELSE @,
                !.unsaved = IF ok THEN FALSE ELSE @])

\* Context.Restore; readable: whether os.ReadFile returns no error for a
\* file that os.Stat did not report as missing.  A read error is returned
\* before anything of the context is assigned.
CtxRestore ==
    \E readable \in BOOLEAN :
       LET u == json_Unmarshal(calc.file)
           missing == calc.file = AbsentFile
           loaded == ~missing /\ readable /\ u.ok
           ok == missing \/ loaded
       IN /\ (missing => readable)
          /\ CtxStep([calc EXCEPT
                !.c = IF loaded
                      THEN [messages |-> u.messages, modified |-> FALSE]
                      ELSE @,
                !.last = CtxCall("Restore", ok),
                !.dirty = IF ok THEN FALSE ELSE @,
                !.unsaved = IF loaded THEN FALSE ELSE @])

CtxCheckpoint ==
    CtxStep([calc EXCEPT
          !.cp = [context |-> Checkpoint(calc.c).context,
                  taken |-> calc.c.messages, held |-> TRUE],
          !.last = CtxCall("Checkpoint", TRUE)])

CtxRestoreCheckpoint ==
    /\ calc.cp.held
    /\ LET ok == json_Unmarshal(calc.cp.context).ok
       IN CtxStep([calc EXCEPT
             !.c = IF ok THEN RestoreCheckpoint(@, calc.cp) ELSE @,
             !.last = CtxCall("RestoreCheckpoint", ok),
             !.dirty = IF ok THEN TRUE ELSE @,
             !.unsaved = IF ok THEN TRUE ELSE @])

\* Context.GetLastNMessages called with any int; a panic leaves the
\* Context as it is (the deferred RUnlock runs) and reaches the caller
CtxGetLastN ==
    \E n \in (-1)..(MaxMsgs + 1) :
       LET r == GetLastNMessages(calc.c, n)
       IN CtxStep([calc EXCEPT
             !.last = [CtxCall("GetLastNMessages", ~r.panic) EXCEPT
                         !.n = n, !.view = r.result, !.panic = r.panic]])

NextContext ==
    \/ CtxAddMessage
    \/ CtxAddMessages
    \/ CtxClear
    \/ CtxSave
    \/ CtxRestore
    \/ CtxCheckpoint
    \/ CtxRestoreCheckpoint
    \/ CtxGetLastN

SpecContext == InitContext /\ [][NextContext]_vars

\* C25 as stated: Save writes the file only if the transcript was modified
\* (AddMessage, AddMessages, Clear, RestoreCheckpoint) since the last
\* successful Save or Restore; a successful Save clears the modified flag,
\* and a Save with no modification since writes nothing and returns nil.
C25_SaveOnlyIfModified ==
    (calc.fn = "context" /\ calc.last.op = "Save") =>
       /\ calc.last.wrote => calc.last.dirty
       /\ calc.last.ok => ~calc.c.modified
       /\ ~calc.last.dirty => (~calc.last.wrote /\ calc.last.ok)

\* C25, amended: Save writes the file only if the transcript was modified
\* since the last Save that returned nil or the last Restore that loaded the
\* file (a Restore that finds no file returns nil and leaves the modified
\* flag as it is); a successful Save clears the modified flag, and a Save
\* with no modification since writes nothing and returns nil.
C25_SaveOnlyIfUnsaved ==
    (calc.fn = "context" /\ calc.last.op = "Save") =>
       /\ calc.last.wrote => calc.last.unsaved
       /\ calc.last.ok => ~calc.c.modified
       /\ ~calc.last.unsaved => (~calc.last.wrote /\ calc.last.ok)

\* a second Save right after a Save that wrote the transcript did nothing
C25_Witness ==
    /\ calc.fn = "context" /\ calc.last.op = "Save"
    /\ ~calc.last.unsaved /\ ~calc.last.wrote /\ calc.last.ok
    /\ calc.c.messages # <<>>
    /\ calc.file = json_Marshal(calc.c.messages).data
    /\ calc.nops = 3

\* C26: a Checkpoint is an immutable snapshot: after any later AddMessage
\* and Clear calls, RestoreCheckpoint(cp) returns nil, replaces the messages
\* of the transcript with exactly the messages present when cp was taken
\* (same order and content) and sets the modified flag.
C26_CheckpointRestores ==
    (calc.fn = "context" /\ calc.last.op = "RestoreCheckpoint") =>
       /\ calc.last.ok
       /\ calc.c.messages = calc.cp.taken
       /\ calc.c.modified

\* C27: for a number n >= 0 of messages asked for, GetLastNMessages(n)
\* returns the min(n, len) most recent messages in transcript order: the
\* empty sequence for n = 0 and the same sequence as GetMessages for every
\* n >= len.
C27_LastN ==
    (/\ calc.fn = "context" /\ calc.last.op = "GetLastNMessages"
     /\ calc.last.n >= 0) =>
       LET msgs == calc.last.before.messages
           n == calc.last.n
           view == calc.last.view
           k == IF n < Len(msgs) THEN n ELSE Len(msgs)
       IN /\ ~calc.last.panic
          /\ Len(view) = k
          /\ \A i \in 1..k : view[i] = msgs[Len(msgs) - k + i]
          /\ n = 0 => view = <<>>
          /\ n >= Len(msgs) => view = GetMessages(calc.last.before)
          /\ calc.c = calc.last.before

\* the last one of two different messages was returned for n = 1
C27_Witness ==
    /\ calc.fn = "context" /\ calc.last.op = "GetLastNMessages"
    /\ calc.last.n = 1
    /\ Len(calc.c.messages) = 2
    /\ calc.c.messages[1] # calc.c.messages[2]
    /\ calc.last.view = <<calc.c.messages[2]>>

(***************************************************************************)
(* Context: the slices returned by GetMessages and GetLastNMessages, and   *)
(* what their caller can do with them.                                     *)
(*                                                                         *)
(* A wire.Message value holds its Content slice by reference: here a       *)
(* message is [type, content], content being the address of the array of   *)
(* its content parts, and calc.parts maps each address to the text of the  *)
(* content part stored there.                                              *)
(*                                                                         *)
(* calc.c       the Context                                                *)
(* calc.view    the slice the caller holds (held: whether it holds one)    *)
(* calc.last    the last step: op, and what the Context and the view       *)
(*              showed before it (store, view)                             *)
(***************************************************************************)
\* content arrays allocated, also the most messages added
MaxRefs == 2

\* steps made by the caller
MaxViewOps == 4

ViewTexts == {"original", "changed"}

ViewTypes == {"user_input", "assistant"}

\* what a reader of the slice msgs sees: each message with its text
Shown(msgs, parts) ==
    [i \in 1..Len(msgs) |->
        [type |-> msgs[i].type, text |-> parts[msgs[i].content]]]

InitViews ==
    /\ SoulIdle
    /\ rx = RxIdle /\ life = LifeOff /\ mgr = MgrOff
    /\ calc = [fn |-> "views", c |-> NewContext,
               parts |-> [r \in 1..MaxRefs |-> ""], nrefs |-> 0,
               view |-> <<>>, held |-> FALSE,
               last |-> [op |-> "none", store |-> <<>>, view |-> <<>>],
               nops |-> 0]

ViewStep(op, next) ==
    /\ calc.fn = "views"
    /\ calc.nops < MaxViewOps
    /\ calc' = [next EXCEPT
                  !.nops = calc.nops + 1,
                  !.last = [op |-> op,
                            store |-> Shown(calc.c.messages, calc.parts),
                            view |-> Shown(calc.view, calc.parts)]]
    /\ UNCHANGED <<soulVars, rx, life, mgr>>

\* the caller builds a message with a new Content slice and adds it
ViewAddMessage ==
    \E t \in ViewTypes :
       /\ calc.nrefs < MaxRefs
       /\ LET r == calc.nrefs + 1
          IN ViewStep("AddMessage",
                [calc EXCEPT !.nrefs = r,
                             !.parts = [@ EXCEPT ![r] = "original"],
                             !.c = AddMessage(@, [type |-> t, content |-> r])])

\* msgs := ctx.GetMessages()
ViewGetMessages ==
    ViewStep("GetMessages",
       [calc EXCEPT !.view = GetMessages(calc.c), !.held = TRUE])

\* msgs := ctx.GetLastNMessages(n)
ViewGetLastN ==
    \E n \in 0..MaxRefs :
       ViewStep("GetLastNMessages",
          [calc EXCEPT !.view = GetLastNMessages(calc.c, n).result,
                       !.held = TRUE])

\* msgs = append(msgs, m): the slice is full, so append copies it
ViewAppend ==
    /\ calc.held
    /\ Len(calc.view) < MaxRefs
    /\ calc.nrefs >= 1
    /\ \E t \in ViewTypes, r \in 1..calc.nrefs :
          ViewStep("append",
             [calc EXCEPT !.view = Append(@, [type |-> t, content |-> r])])

\* msgs[i] = m
ViewReplace ==
    /\ calc.held
    /\ \E i \in 1..Len(calc.view), t \in ViewTypes, r \in 1..calc.nrefs :
          ViewStep("replace",
             [calc EXCEPT !.view[i] = [type |-> t, content |-> r]])

\* msgs[i].Type = t
ViewSetType ==
    /\ calc.held
    /\ \E i \in 1..Len(calc.view), t \in ViewTypes :
          /\ t # calc.view[i].type
          /\ ViewStep("set field", [calc EXCEPT !.view[i].type = t])

\* msgs[i].Content[0].Text = x
ViewSetText ==
    /\ calc.held
    /\ \E i \in 1..Len(calc.view), x \in ViewTexts :
          /\ x # calc.parts[calc.view[i].content]
          /\ ViewStep("set content part",
                [calc EXCEPT !.parts[calc.view[i].content] = x])

NextViews ==
    \/ ViewAddMessage
    \/ ViewGetMessages
    \/ ViewGetLastN
    \/ ViewAppend
    \/ ViewReplace
    \/ ViewSetType
    \/ ViewSetText

SpecViews == InitViews /\ [][NextViews]_vars

\* C28: GetMessages and GetLastNMessages return copies owned by the caller:
\* no mutation of a returned slice (appending to it, replacing an element,
\* changing a field or a content part of a returned message) changes what
\* later GetMessages / GetLastNMessages calls return, and a later AddMessage
\* does not change a slice returned before.
C28_ViewsAreCopies ==
    (calc.fn = "views") =>
       /\ calc.last.op \in {"append", "replace", "set field", "set content part"}
             => Shown(calc.c.messages, calc.parts) = calc.last.store
       /\ calc.last.op = "AddMessage"
             => Shown(calc.view, calc.parts) = calc.last.view

(***************************************************************************)
(* ToolSet: Register and Get on a registry that starts empty.              *)
(*                                                                         *)
(* A tool is [id, name]: two tools may have the same name.  The registry   *)
(* maps each name to the id of the tool stored under it (NoTool: none).    *)
(*                                                                         *)
(* calc.ts      the ToolSet                                                *)
(* calc.log     the Register calls made, in order (the tools passed)       *)
(* calc.last    the last call: op, name, tool (passed or returned), err    *)
(* calc.before  the ToolSet before the last call                           *)
(***************************************************************************)
\* calls made on the ToolSet
MaxToolOps == 4

NoTool == 0

ToolObjs == {[id |-> 1, name |-> "shell"], [id |-> 2, name |-> "shell"],
             [id |-> 3, name |-> "file"]}

LookupNames == {"shell", "file", "nonexistent"}

\* NewToolSet
NewToolSet == [n \in LookupNames |-> NoTool]

ToolSet_Register_overwrite(ts, tool) ==
    IF ts[tool.name] # NoTool
    THEN [ts |-> [ts EXCEPT ![tool.name] = tool.id], err |-> "already registered"]
    ELSE [ts |-> [ts EXCEPT ![tool.name] = tool.id], err |-> ""]

\* ToolSet.Register
ToolSet_Register(ts, tool) ==
    IF ts[tool.name] # NoTool
    THEN [ts |-> ts, err |-> "already registered"]
    ELSE [ts |-> [ts EXCEPT ![tool.name] = tool.id], err |-> ""]

\* ToolSet.Get on a given registry
ToolSet_GetFrom(ts, name) ==
    IF ts[name] = NoTool THEN [tool |-> NoTool, err |-> "not found"]
    ELSE [tool |-> ts[name], err |-> ""]

InitTools ==
    /\ SoulIdle
    /\ rx = RxIdle /\ life = LifeOff /\ mgr = MgrOff
    /\ calc = [fn |-> "toolset", ts |-> NewToolSet, log |-> <<>>,
               before |-> NewToolSet,
               last |-> [op |-> "none", name |-> "", tool |-> NoTool,
                         err |-> ""],
               nops |-> 0]

TsRegister ==
    /\ calc.fn = "toolset"
    /\ calc.nops < MaxToolOps
    /\ \E tool \in ToolObjs :
          LET r == ToolSet_Register(calc.ts, tool)
          IN calc' = [calc EXCEPT
                        !.ts = r.ts, !.before = calc.ts,
                        !.log = Append(@, tool),
                        !.last = [op |-> "Register", name |-> tool.name,
                                  tool |-> tool.id, err |-> r.err],
                        !.nops = @ + 1]
    /\ UNCHANGED <<soulVars, rx, life, mgr>>

TsGet ==
    /\ calc.fn = "toolset"
    /\ calc.nops < MaxToolOps
    /\ \E name \in LookupNames :
          LET r == ToolSet_GetFrom(calc.ts, name)
          IN calc' = [calc EXCEPT
                        !.before = calc.ts,
                        !.last = [op |-> "Get", name |-> name,
                                  tool |-> r.tool, err |-> r.err],
                        !.nops = @ + 1]
    /\ UNCHANGED <<soulVars, rx, life, mgr>>

NextTools == TsRegister \/ TsGet

SpecTools == InitTools /\ [][NextTools]_vars

\* the id of the first tool of log that has the given name (NoTool: none)
RECURSIVE FirstRegistered(_, _)
FirstRegistered(log, name) ==
    IF log = <<>> THEN NoTool
    ELSE IF Head(log).name = name THEN Head(log).id
    ELSE FirstRegistered(Tail(log), name)

\* C29: Register(tool) fails when a tool of the same name is registered and
\* leaves the registry unchanged (Get(name) still returns the tool
\* registered first); otherwise it stores the tool so that Get(name) returns
\* it; Get of a name never registered fails with not found.
C29_RegisterGet ==
    (calc.fn = "toolset") =>
       /\ calc.last.op = "Register" =>
            LET earlier == FirstRegistered(SubSeq(calc.log, 1, Len(calc.log) - 1),
                                           calc.last.name)
            IN IF earlier # NoTool
               THEN /\ calc.last.err # ""
                    /\ calc.ts = calc.before
                    /\ ToolSet_GetFrom(calc.ts, calc.last.name).tool = earlier
               ELSE /\ calc.last.err = ""
                    /\ ToolSet_GetFrom(calc.ts, calc.last.name)
                          = [tool |-> calc.last.tool, err |-> ""]
       /\ calc.last.op = "Get" =>
            /\ calc.ts = calc.before
            /\ IF FirstRegistered(calc.log, calc.last.name) = NoTool
               THEN calc.last.err # "" /\ calc.last.tool = NoTool
               ELSE /\ calc.last.err = ""
                    /\ calc.last.tool = FirstRegistered(calc.log, calc.last.name)

\* a second tool named shell was refused and Get still returns the first
C29_Witness ==
    /\ calc.fn = "toolset"
    /\ Len(calc.log) = 2
    /\ calc.log[1].name = "shell" /\ calc.log[2].name = "shell"
    /\ calc.log[1].id # calc.log[2].id
    /\ calc.last.op = "Get" /\ calc.last.name = "shell"
    /\ calc.last.tool = calc.log[1].id

(***************************************************************************)
(* The retrying client beside ExecuteWithRetry, as in the lockstep         *)
(* specification above, in a Soul that is given user input only, together  *)
(* with the streaming calls of the retrying client.                        *)
(*                                                                         *)
(* calc.calls       ChatStream calls made on the RetryableClient           *)
(* calc.baseCalls   ChatStream calls made on the base client               *)
(* calc.base        what the base client returned to the last one          *)
(* calc.out         what the RetryableClient returned for it               *)
(***************************************************************************)
\* ChatStream calls made
MaxStreamCalls == 1

StreamOutcomes == {NoErr, ApiErr(503), NetworkErr, ApiErr(401)}

\* RetryableClient.ChatStream: the calls of c.inner.ChatStream it makes when
\* the stream of the base client ends with e
StreamBaseCalls(e) == 1

InitClient ==
    /\ SoulInit
    /\ hasClient
    /\ rx = RxIdle /\ life = LifeOff /\ mgr = MgrOff
    /\ calc = [fn |-> "stream", calls |-> 0, baseCalls |-> 0,
               base |-> NoErr, out |-> NoErr]

\* RetryableClient.ChatStream (and ChatStreamWithTools)
ClientChatStream ==
    /\ calc.fn = "stream"
    /\ calc.calls < MaxStreamCalls
    /\ \E e \in StreamOutcomes :
          calc' = [calc EXCEPT !.calls = @ + 1,
                               !.baseCalls = @ + StreamBaseCalls(e),
                               !.base = e, !.out = e]
    /\ UNCHANGED <<soulVars, rx, life, mgr>>

PairSend ==
    /\ SendMessageStep("user_input")
    /\ UNCHANGED <<rx, auxVars>>

PairRecv ==
    /\ RunRecvStep
    /\ UNCHANGED <<rx, auxVars>>

NextClient ==
    \/ PairSend
    \/ PairCtxCancel
    \/ ConsumeDone
    \/ RunStart
    \/ RunSelect
    \/ RunCtxDone
    \/ PairRecv
    \/ RunSignalDone
    \/ PairChat
    \/ PairAttempt
    \/ PairReply
    \/ PairBackoffElapsed
    \/ PairBackoffCancelled
    \/ SoulToolBegin
    \/ SoulToolCall
    \/ ClientChatStream

SpecClient == InitClient /\ [][NextClient]_vars

\* the position in tr of the last event that begins a ChatWithTools call or
\* records a request of the base client (0: none)
LastCallEv(tr) ==
    LET idx == EvIdx(tr, {"LLMCall", "Attempt"})
    IN IF idx = {} THEN 0 ELSE CHOOSE i \in idx : \A j \in idx : j <= i

\* the requests of the base client made by the last ChatWithTools call
CallRequests(tr) ==
    LET idx == EvIdx(tr, {"LLMCall"})
        k == IF idx = {} THEN 0 ELSE CHOOSE i \in idx : \A j \in idx : j <= i
    IN SelectSeq(SubSeq(tr, k + 1, Len(tr)), LAMBDA e : e.ev = "Attempt")

\* what ChatWithTools returned, read from the events that follow its last
\* request: the result that ExecuteWithRetry has to return
ExpectedRx(tr) ==
    LET k == LastCallEv(tr)
    IN IF tr[k].ev = "Attempt" /\ tr[k].ok THEN {RxOk}
       ELSE LET cause == tr[k + 1].id
            IN IF cause = "ctx" THEN {RxCancelledErr}
               ELSE {RxPlain(e) : e \in {x \in LLMErrors : ErrTag(x) = cause}}
                    \cup {RxMaxRetries(ClientMaxRetries, e) :
                            e \in {x \in LLMErrors :
                                     "max retries:" \o ErrTag(x) = cause}}

\* C30: ChatWithTools of the retrying client behaves as ExecuteWithRetry
\* run with the same configuration, the base client's request as fn and
\* IsRetryableError as predicate: for every sequence of outcomes of the base
\* client and every time of cancellation both make the same requests, wait
\* between the same attempts and return the same response or error;
\* ChatStream calls the base client exactly once and returns what it returns.
C30_ClientIsRetryExecutor ==
    /\ (rx.pc # "off" /\ EvIdx(trace, {"LLMCall"}) # {}) =>
         /\ rx.ctxDone = ctxDone
         /\ Len(CallRequests(trace)) = Len(rx.opLog)
         /\ \A i \in 1..Len(rx.opLog) :
               CallRequests(trace)[i].name = ErrTag(rx.opLog[i])
         /\ runPc = "attempt" =>
               rx.pc = "head" /\ rx.attempt = attempt /\ rx.waits = attempt
         /\ runPc = "inflight" =>
               rx.pc = "inop" /\ rx.attempt = attempt /\ rx.waits = attempt
         /\ runPc = "backoff" =>
               rx.pc = "wait" /\ rx.attempt = attempt /\ rx.waits = attempt + 1
         /\ runPc \notin {"attempt", "inflight", "backoff"} =>
               /\ rx.pc = "ret"
               /\ rx.result \in ExpectedRx(trace)
    /\ calc.fn = "stream" =>
         /\ calc.baseCalls = calc.calls
         /\ calc.out = calc.base

\* a request failed with 503, both loops waited, the second request
\* succeeded; a ChatStream call ended with a retryable error
C30_Witness ==
    /\ rx.pc = "ret"
    /\ rx.opLog = <<ApiErr(503), NoErr>>
    /\ rx.waits = 1
    /\ rx.result = RxOk
    /\ Len(CallRequests(trace)) = 2
    /\ runPc = "select"
    /\ calc.fn = "stream" /\ calc.calls = 1 /\ calc.base = ApiErr(503)

(***************************************************************************)
(* The turn loop with its transcript (Soul.Context), the message list of   *)
(* processWithLLM and the agent's system prompt.                           *)
(*                                                                         *)
(* calc.sys       Agent.SystemPrompt                                       *)
(* calc.c         the Context: messages and modified                       *)
(* calc.messages  the local variable messages of processWithLLM            *)
(* calc.req       the messages argument of the last ChatWithTools call     *)
(* calc.log       the calls made on the Context and on OnMessage while     *)
(*                handling the message dequeued last, in program order     *)
(* calc.cur       the type of that message                                 *)
(* calc.before    the Context when that message was dequeued               *)
(* calc.hist      the LLM history when that message was dequeued           *)
(* calc.done      types of the messages whose handling has finished        *)
(***************************************************************************)
SystemPrompts == {"", "sys"}

\* wire.Message with one text part
WireMsg(type, text) == [type |-> type, text |-> text, meta |-> "none"]

\* the text of the message processWithLLM emits when there is no client
ConfigNotice == "LLM client is not configured"

\* a call on the Context or on OnMessage, with the message passed
Op(op, m) == [op |-> op, msg |-> m]

NoWire == WireMsg("", "")

buildLLMMessages_always(sys, hist) ==
    <<LLMMsg("system", sys, <<>>, "")>> \o hist

\* Soul.buildLLMMessages
buildLLMMessages(sys, hist) ==
    (IF sys # "" THEN <<LLMMsg("system", sys, <<>>, "")>> ELSE <<>>) \o hist

EmitWire_eventFirst(k, m) ==
    [k EXCEPT !.c = AddMessage(@, m),
              !.log = @ \o <<Op("OnMessage", m), Op("AddMessage", m)>>]

\* s.Context.AddMessage(m) followed by s.OnMessage(m)
EmitWire(k, m) ==
    [k EXCEPT !.c = AddMessage(@, m),
              !.log = @ \o <<Op("AddMessage", m), Op("OnMessage", m)>>]

\* _ = s.Context.Save(); written: whether the file was written
TurnSave(k, written) ==
    [k EXCEPT !.c = IF @.modified /\ SaveClears(written)
                    THEN [@ EXCEPT !.modified = FALSE] ELSE @,
              !.log = Append(@, Op("Save", NoWire))]

HandleUserInput_noNotice(k, client, hist) ==
    LET u == WireMsg("user_input", "u")
        k1 == [k EXCEPT !.c = AddMessage(@, u), !.log = <<Op("AddMessage", u)>>]
    IN IF client THEN [k1 EXCEPT !.messages = buildLLMMessages(k.sys, hist)]
       ELSE k1

\* Soul.handleUserInput and processWithLLM up to the agent loop; hist is
\* the LLM history after the user message was appended
HandleUserInput(k, client, hist) ==
    LET u == WireMsg("user_input", "u")
        k1 == [k EXCEPT !.c = AddMessage(@, u), !.log = <<Op("AddMessage", u)>>]
    IN IF client THEN [k1 EXCEPT !.messages = buildLLMMessages(k.sys, hist)]
       ELSE EmitWire(k1, WireMsg("assistant", ConfigNotice))

ProcessMessage_record(k, type, client, hist) ==
    IF type = "user_input" THEN HandleUserInput(k, client, hist)
    ELSE [k EXCEPT !.c = AddMessage(@, WireMsg(type, "")), !.log = <<>>]

\* Soul.processMessage
ProcessMessage(k, type, client, hist) ==
    IF type = "user_input" THEN HandleUserInput(k, client, hist)
    ELSE [k EXCEPT !.log = <<>>]

\* responseText of processWithLLM
ResponseText(m) == IF m.content = "" THEN "(empty response)" ELSE m.content

AfterResponse_saveFirst(k, o, written) ==
    IF o.kind \in {"err", "nochoice"} THEN k
    ELSE LET k1 == [k EXCEPT !.messages = Append(@, AssistantMsg(o))]
         IN IF Len(o.calls) > 0 THEN k1
            ELSE EmitWire(TurnSave(k1, written),
                          WireMsg("assistant", ResponseText(AssistantMsg(o))))

\* processWithLLM after ChatWithTools returned: the assistant message is
\* appended to messages; a reply without tool calls is emitted and saved
AfterResponse(k, o, written) ==
    IF o.kind \in {"err", "nochoice"} THEN k
    ELSE LET k1 == [k EXCEPT !.messages = Append(@, AssistantMsg(o))]
         IN IF Len(o.calls) > 0 THEN k1
            ELSE TurnSave(EmitWire(k1, WireMsg("assistant",
                                               ResponseText(AssistantMsg(o)))),
                          written)

\* the body of the loop over the tool calls before executeToolCall: the
\* tool_call message
BeforeToolCall(k, tc) ==
    EmitWire(k, WireMsg("tool_call", "Calling tool: " \o tc.name))

AfterToolCall_local(k, tc, result) ==
    EmitWire(k, WireMsg("tool_result", ResultText(result)))

\* the body of the loop over the tool calls after executeToolCall: the tool
\* message appended to messages, the tool_result message
AfterToolCall(k, tc, result) ==
    LET k2 == [k EXCEPT !.messages = Append(@, ToolResultMsg(tc, result))]
    IN EmitWire(k2, WireMsg("tool_result", ResultText(result)))

InitTurn ==
    /\ SoulInit
    /\ rx = RxIdle /\ life = LifeOff /\ mgr = MgrOff
    /\ \E sys \in SystemPrompts :
          calc = [fn |-> "turn", sys |-> sys, c |-> NewContext,
                  messages |-> <<>>, req |-> <<>>, log |-> <<>>,
                  cur |-> "", before |-> NewContext, hist |-> <<>>,
                  done |-> <<>>]

TurnRecv ==
    /\ calc.fn = "turn"
    /\ RunRecvStep
    /\ calc' = [ProcessMessage(calc, Head(msgCh), hasClient, llmHistory')
                  EXCEPT !.cur = Head(msgCh), !.before = calc.c,
                         !.hist = llmHistory]
    /\ UNCHANGED <<rx, life, mgr>>

\* processWithLLM: client.ChatWithTools(ctx, messages, toolDefs)
TurnChat ==
    /\ calc.fn = "turn"
    /\ SoulChatStep
    /\ calc' = IF LoopContinues(step) THEN [calc EXCEPT !.req = calc.messages]
               ELSE calc
    /\ UNCHANGED <<rx, life, mgr>>

TurnAttempt ==
    /\ calc.fn = "turn"
    /\ \E o \in Outcomes, written \in BOOLEAN :
          /\ ClientRequest(o)
          /\ calc' = AfterResponse(calc, o, written)
    /\ UNCHANGED <<rx, life, mgr>>

TurnBackoffElapsed ==
    /\ calc.fn = "turn"
    /\ ClientBackoffElapsedStep
    /\ UNCHANGED <<rx, auxVars>>

TurnToolBegin ==
    /\ calc.fn = "turn"
    /\ SoulToolBeginStep
    /\ calc' = BeforeToolCall(calc, NextCall(pending))
    /\ UNCHANGED <<rx, life, mgr>>

TurnToolCall ==
    /\ calc.fn = "turn"
    /\ \E execOk \in BOOLEAN :
          /\ SoulToolCallStep(execOk)
          /\ LET tc == NextCall(pending)
             IN calc' = AfterToolCall(calc, tc, ExecuteToolCall(tc, execOk))
    /\ UNCHANGED <<rx, life, mgr>>

TurnSignalDone ==
    /\ calc.fn = "turn"
    /\ RunSignalDoneStep
    /\ calc' = [calc EXCEPT !.done = Append(@, calc.cur)]
    /\ UNCHANGED <<rx, life, mgr>>

NextTurn ==
    \/ \E t \in MsgTypes : SendMessage(t)
    \/ ConsumeDone
    \/ RunStart
    \/ RunSelect
    \/ TurnRecv
    \/ TurnSignalDone
    \/ TurnChat
    \/ ClientIssue
    \/ TurnAttempt
    \/ TurnBackoffElapsed
    \/ TurnToolBegin
    \/ TurnToolCall

SpecTurn == InitTurn /\ [][NextTurn]_vars

\* the events ev of the trace, in order
EventsOf(tr, ev) == SelectSeq(tr, LAMBDA e : e.ev = ev)

\* C31: a dequeued message whose type is neither user_input nor cancel is
\* reported through OnError once, as an unknown message type; the transcript
\* and the LLM history are as they were when it was dequeued, and the loop
\* stays running: it signals Done and waits at its select on a cancel
\* channel that is not closed.
C31_UnknownTypeSurvives ==
    (calc.fn = "turn" /\ calc.cur \notin {"", "user_input", "cancel"}) =>
       /\ EventsOf(trace, "OnError") =
             <<Ev("OnError", "", "unknown message type", FALSE)>>
       /\ EventsOf(trace, "OnMessage") = <<>>
       /\ calc.log = <<>>
       /\ calc.c = calc.before
       /\ llmHistory = calc.hist
       /\ running
       /\ runPc \in {"signal", "loop", "select"}
       /\ runPc # "signal" => Len(EventsOf(trace, "Done")) = 1
       /\ runPc = "select" => waitCh \notin closedChs

\* after a status message was handled, a user_input turn ran to its
\* terminal reply and signalled Done
C31_Witness ==
    /\ calc.fn = "turn"
    /\ calc.done = <<"status", "user_input">>
    /\ calc.cur = "user_input"
    /\ hasClient
    /\ runPc = "select"
    /\ Last(calc.c.messages).type = "assistant"
    /\ EventsOf(trace, "OnError") = <<>>
    /\ Len(EventsOf(trace, "Done")) = 1

\* C32: without an LLM client, handling a user_input message appends the
\* user message and then exactly one assistant message, the configuration
\* notice, to the transcript; the notice is passed to OnMessage exactly
\* once, after it was appended; OnError is not called, the LLM history is
\* left alone, and Run makes its send on DoneCh.
C32_NoClientNotice ==
    (calc.fn = "turn" /\ calc.cur = "user_input" /\ ~hasClient) =>
       LET u == WireMsg("user_input", "u")
           notice == WireMsg("assistant", ConfigNotice)
       IN /\ calc.c.messages = calc.before.messages \o <<u, notice>>
          /\ calc.log = <<Op("AddMessage", u), Op("AddMessage", notice),
                          Op("OnMessage", notice)>>
          /\ EventsOf(trace, "OnMessage") =
                <<Ev("OnMessage", "", "assistant", TRUE)>>
          /\ EventsOf(trace, "OnError") = <<>>
          /\ llmHistory = calc.hist
          /\ running
          /\ runPc \in {"signal", "loop", "select"}
          /\ runPc # "signal" => Len(EventsOf(trace, "Done")) = 1

\* a Soul without client handled its second user_input message and wrote
\* to DoneCh
C32_Witness ==
    /\ calc.fn = "turn" /\ ~hasClient
    /\ calc.done = <<"user_input", "user_input">>
    /\ Len(calc.c.messages) = 4
    /\ runPc = "select"
    /\ Last(trace) = Ev("Done", "", "", TRUE)

(***************************************************************************)
(* The Soul with handlers and tools that may panic.  Neither Run nor       *)
(* processMessage, processWithLLM, executeToolCall or handleError calls    *)
(* recover: a panic unwinds the goroutine of Run, running its deferred     *)
(* function, and ends the program.  runPc = "crashed" is the state after   *)
(* it.                                                                     *)
(***************************************************************************)
\* a panic raised below Run after the calls evs were made: the deferred
\* function of Run resets running, nothing after the panicking call runs
Unwind(evs, what, id) ==
    /\ trace' = trace \o evs \o <<Ev("Panic", id, what, FALSE)>>
    /\ running' = FALSE
    /\ runPc' = "crashed"
    /\ UNCHANGED <<msgCh, DoneCh, cancelCh, closedChs, waitCh, llmHistory,
                   step, pending, attempt, hasClient, ctxDone, sent, reqs,
                   rx, auxVars>>

\* tool.Execute, called by executeToolCall, panics instead of returning
ToolPanics ==
    /\ runPc = "exec"
    /\ LET tc == NextCall(pending) IN
       /\ ToolSet_Get(tc.name)
       /\ Unwind(<<>>, "Execute", tc.id)

\* the OnToolCall handler panics
HandlerPanics ==
    /\ runPc = "tools"
    /\ pending # <<>>
    /\ Unwind(<<>>, "OnToolCall", NextCall(pending).id)

NextFault ==
    \/ Next
    \/ ToolPanics
    \/ HandlerPanics

SpecFault == Init /\ [][NextFault]_vars

\* C33: a panic raised inside an event handler or a tool invocation during a
\* turn is caught: the loop stays running, it sends on DoneCh for that
\* message, and every assistant message with tool calls in the LLM history
\* has its tool messages once the turn is over.
C33_FaultContained ==
    NumEv(trace, "Panic") > 0 =>
       /\ running
       /\ runPc # "crashed"
       /\ TurnOver => /\ NumEv(trace, "Done") = 1
                      /\ \A i \in 1..Len(llmHistory) :
                            HasCalls(llmHistory, i) => Answered(llmHistory, i)

\* the positions of the calls op in a call log
OpIdx(log, op) == {i \in 1..Len(log) : log[i].op = op}

\* the messages passed to the calls op of a call log, in order
OpMsgs(log, op) ==
    LET sel == SelectSeq(log, LAMBDA e : e.op = op)
    IN [i \in 1..Len(sel) |-> sel[i].msg]

\* C34: within a turn the tool_call, tool_result and assistant messages are
\* appended to the transcript in the order in which they are passed to
\* OnMessage; each is appended before its OnMessage call and before the
\* next message is appended, and the user_input message of the turn is in
\* the transcript before all of them.
C34_TranscriptOrderIsEventOrder ==
    (calc.fn = "turn" /\ calc.cur = "user_input") =>
       LET adds == OpMsgs(calc.log, "AddMessage")
           ons == OpMsgs(calc.log, "OnMessage")
           calls == SelectSeq(calc.log,
                              LAMBDA e : e.op \in {"AddMessage", "OnMessage"})
       IN /\ calc.c.messages = calc.before.messages \o adds
          /\ Len(adds) >= 1
          /\ adds[1] = WireMsg("user_input", "u")
          /\ Tail(adds) = ons
          /\ calls[1].op = "AddMessage"
          /\ \A i \in 1..Len(ons) :
                /\ ons[i].type \in {"tool_call", "tool_result", "assistant"}
                /\ calls[2 * i] = Op("AddMessage", ons[i])
                /\ calls[2 * i + 1] = Op("OnMessage", ons[i])
          /\ Len(EventsOf(trace, "OnMessage")) = Len(ons)
          /\ \A i \in 1..Len(ons) :
                EventsOf(trace, "OnMessage")[i].name = ons[i].type

\* a turn with two tool calls and a terminal reply is over: five messages
\* followed the user message
C34_Witness ==
    /\ calc.fn = "turn" /\ calc.cur = "user_input"
    /\ runPc = "select"
    /\ Len(OpMsgs(calc.log, "OnMessage")) = 5
    /\ Last(calc.c.messages).type = "assistant"
    /\ calc.c.messages[2].type = "tool_call"
    /\ calc.c.messages[3].type = "tool_result"

\* C35 (as stated): processing a cancel message closes the cancel channel
\* and reports no error, and the loop then observes the cancellation: when
\* it next waits in its select, the cancel channel it waits on is closed,
\* so that Run returns "soul cancelled" as after a call of Cancel.
C35_CancelMessageStops ==
    (calc.fn = "turn" /\ calc.cur = "cancel") =>
       /\ EventsOf(trace, "OnError") = <<>>
       /\ closedChs # {}
       /\ runPc = "select" => waitCh \in closedChs

\* the context passed to Run is cancelled, or the loop waits in its select
\* on a cancel channel that has been closed
CancellationFired == ctxDone \/ (runPc = "select" /\ waitCh \in closedChs)

\* C36 (as stated): once the context passed to Run or the cancel signal has
\* fired, the loop takes no further message out of the inbox, even when
\* messages are waiting there: at the select of Run the cancellation wins.
C36_CancellationWinsAtSelect ==
    [][CancellationFired => Len(msgCh') >= Len(msgCh)]_vars

\* C37: the turn loop calls Context.Save only when a turn ends with an
\* assistant reply without tool calls: at most once per turn, as its last
\* call on the Context, after the assistant message was appended and passed
\* to OnMessage.  A turn that ends with an error (LLM error, no choices,
\* maximum steps) makes no Save call, and the modified flag of the
\* transcript is set after it.
C37_SaveOnlyAfterTerminalReply ==
    calc.fn = "turn" =>
       LET saves == OpIdx(calc.log, "Save")
           n == Len(calc.log)
       IN /\ Cardinality(saves) <= 1
          /\ saves # {} =>
                /\ calc.cur = "user_input" /\ hasClient
                /\ saves = {n}
                /\ calc.log[n - 1].op = "OnMessage"
                /\ calc.log[n - 1].msg.type = "assistant"
                /\ calc.log[n - 2] = Op("AddMessage", calc.log[n - 1].msg)
                /\ Last(calc.c.messages) = calc.log[n - 1].msg
                /\ Last(llmHistory).role = "assistant"
                /\ Last(llmHistory).tool_calls = <<>>
                /\ EventsOf(trace, "OnError") = <<>>
                /\ runPc \in {"signal", "loop", "select"}
          /\ (calc.cur = "user_input" /\ EventsOf(trace, "OnError") # <<>>) =>
                /\ saves = {}
                /\ calc.c.modified
          /\ (calc.cur = "user_input" /\ hasClient /\ TurnOver
                /\ EventsOf(trace, "OnError") = <<>>) => saves # {}

\* a turn whose Save wrote the transcript was followed by a turn that ended
\* with an error: no Save, the modified flag is set
C37_Witness ==
    /\ calc.fn = "turn"
    /\ calc.done = <<"user_input", "user_input">>
    /\ ~calc.before.modified
    /\ calc.before.messages # <<>>
    /\ EventsOf(trace, "OnError") # <<>>
    /\ OpIdx(calc.log, "Save") = {}
    /\ calc.c.modified

\* C38: while a ChatWithTools call of a turn is in progress, the message
\* list it was given is the system message, present if and only if the
\* system prompt of the agent is not empty, followed by every entry of the
\* LLM history in order: the messages of earlier turns and the user,
\* assistant and tool messages of this turn.
C38_RequestIsPromptOfHistory ==
    (calc.fn = "turn" /\ runPc \in {"attempt", "inflight", "backoff"}) =>
       /\ calc.sys = "" => calc.req = llmHistory
       /\ calc.sys # "" =>
             /\ Len(calc.req) = Len(llmHistory) + 1
             /\ calc.req[1] = LLMMsg("system", calc.sys, <<>>, "")
             /\ Tail(calc.req) = llmHistory
       /\ \A i \in 2..Len(calc.req) : calc.req[i].role # "system"

\* the second chat call of the second turn of an agent with a system
\* prompt: the list holds both user messages and the tool messages
C38_Witness ==
    /\ calc.fn = "turn" /\ calc.sys = "sys"
    /\ runPc = "attempt"
    /\ step = 1
    /\ calc.done = <<"user_input">>
    /\ Len(SelectSeq(calc.req, LAMBDA m : m.role = "user")) = 2
    /\ Last(calc.req).role = "tool"
    /\ Len(calc.req) >= 6

\* h is an initial part of g
IsPrefix(h, g) == Len(h) <= Len(g) /\ SubSeq(g, 1, Len(h)) = h

\* C39: the LLM history is never rolled back: every step of the loop,
\* including the end of a turn with an LLM error, with no choices or at the
\* maximum of steps, leaves the entries of the history in place.  The first
\* request of a turn therefore holds the whole history left by the turns
\* before it, followed by the new user message; after a turn that failed in
\* its first step it ends with two consecutive user messages.
C39_HistoryKeptAfterFailure ==
    /\ [][IsPrefix(llmHistory, llmHistory')]_vars
    /\ [](calc.fn = "turn" =>
            /\ (calc.cur = "user_input" /\ hasClient) =>
                  IsPrefix(Append(calc.hist, UserMsg), llmHistory)
            /\ (runPc = "attempt" /\ step = 0) =>
                  /\ calc.req = buildLLMMessages(calc.sys, calc.hist)
                                   \o <<UserMsg>>
                  /\ (calc.hist # <<>> /\ Last(calc.hist).role = "user") =>
                        /\ calc.req[Len(calc.req) - 1] = UserMsg
                        /\ Last(calc.req) = UserMsg)

\* the first turn ended with an LLM error in its first step; the first
\* request of the second turn ends with two user messages
C39_Witness ==
    /\ calc.fn = "turn"
    /\ calc.done = <<"user_input">>
    /\ runPc = "attempt" /\ step = 0
    /\ calc.hist = <<UserMsg>>
    /\ llmHistory = <<UserMsg, UserMsg>>
    /\ calc.req = buildLLMMessages(calc.sys, <<UserMsg, UserMsg>>)

(***************************************************************************)
(* The running loop under fair scheduling, with an LLM client whose        *)
(* requests return, tools that return, timers that fire, and no            *)
(* cancellation.  The consumer of DoneCh and the senders are not required  *)
(* to make progress.                                                       *)
(*                                                                         *)
(* calc.recv   messages dequeued by Run                                    *)
(* calc.done   sends on DoneCh made by Run (buffered or dropped)           *)
(***************************************************************************)
\* messages sent to the fairly scheduled loop
LiveMaxSends == 1

LiveMsgTypes == {"user_input", "status"}

InitLive ==
    /\ SoulInit
    /\ hasClient
    /\ rx = RxIdle /\ life = LifeOff /\ mgr = MgrOff
    /\ calc = [fn |-> "live", recv |-> 0, done |-> 0]

LiveRecv ==
    /\ calc.fn = "live"
    /\ RunRecvStep
    /\ calc' = [calc EXCEPT !.recv = @ + 1]
    /\ UNCHANGED <<rx, life, mgr>>

LiveSignalDone ==
    /\ calc.fn = "live"
    /\ RunSignalDoneStep
    /\ calc' = [calc EXCEPT !.done = @ + 1]
    /\ UNCHANGED <<rx, life, mgr>>

\* what the base client answers to the fairly scheduled loop: every outcome
\* but the single tool call, every tool call of which is also one of the
\* list of two
LiveOutcomes == {o \in Outcomes : o.kind = "tools" => Len(o.calls) = 2}

\* a request of the base client returns
LiveAttempt ==
    /\ \E o \in LiveOutcomes : ClientRequestStep(o)
    /\ UNCHANGED <<reqs, rx, auxVars>>

NextLive ==
    \/ \E t \in LiveMsgTypes : sent < LiveMaxSends /\ SendMessage(t)
    \/ ConsumeDone
    \/ RunStart
    \/ RunSelect
    \/ LiveRecv
    \/ LiveSignalDone
    \/ SoulChat
    \/ ClientIssue
    \/ LiveAttempt
    \/ ClientBackoffElapsed
    \/ SoulToolBegin
    \/ SoulToolCall

\* Run is started by main in a goroutine of its own; the scheduler runs
\* it whenever it can take a step
LiveFairness ==
    /\ WF_vars(RunStart)
    /\ WF_vars(RunSelect)
    /\ WF_vars(LiveRecv)
    /\ WF_vars(LiveSignalDone)
    /\ WF_vars(SoulChat)
    /\ WF_vars(ClientIssue)
    /\ WF_vars(LiveAttempt)
    /\ WF_vars(ClientBackoffElapsed)
    /\ WF_vars(SoulToolBegin)
    /\ WF_vars(SoulToolCall)

SpecLive == InitLive /\ [][NextLive]_vars /\ LiveFairness

\* C40: under fair scheduling, with an LLM client and tools whose calls
\* return and without cancellation, the n-th message accepted by
\* SendMessage is eventually dequeued and its handling ends: the loop has
\* made its n-th send on DoneCh and waits in its select again.  No turn
\* makes more than MaxSteps ChatWithTools calls.
C40_EveryMessageHandled ==
    /\ \A n \in 1..LiveMaxSends :
          (sent >= n) ~> (calc.recv >= n /\ calc.done >= n /\ runPc = "select")
    /\ [](NumEv(trace, "LLMCall") <= MaxSteps)
    /\ [](calc.recv <= sent /\ calc.done <= calc.recv)

\* every accepted message was handled, the last one in a turn that used
\* all its steps, and the loop waits on the empty inbox
C40_Witness ==
    /\ calc.fn = "live"
    /\ sent = LiveMaxSends
    /\ calc.done = LiveMaxSends
    /\ msgCh = <<>>
    /\ runPc = "select"
    /\ NumEv(trace, "LLMCall") = MaxSteps
    /\ NumEv(trace, "OnError") = 1

====
